---- MODULE Spec2Model ----
(***************************************************************************)
(* Model of the AI tool-orchestration core of nubi:                        *)
(*   - the streaming loops of backend/app/routes/ai.py                     *)
(*     (board_helper_stream.generate_stream, _tool_loop_stream behind      *)
(*     _datastore_context_stream / _general_context_stream, and            *)
(*     exploration_helper_stream), with the tool dispatcher _execute_tool; *)
(*   - the gateway of backend/app/llm.py (call_llm, get_model_info,        *)
(*     get_available_models and the provider adapters' request bodies).    *)
(*                                                                         *)
(* Text is a sequence of tokens; a token stands for a literal chunk of     *)
(* text (see TokLen and the Has* predicates).  The language model, the     *)
(* tool collaborators, the database and the vendors' HTTP endpoints are    *)
(* the environment: their answers are chosen nondeterministically.         *)
(***************************************************************************)
EXTENDS Integers, Sequences, FiniteSets, TLC

(***************************************************************************)
(* Bounds of the model.                                                    *)
(***************************************************************************)
\* largest iteration budget (max_tool_iterations) a caller passes, besides
\* the budget ApproachMargin + 1 that makes the "approaching limit" event fire
MaxIter == 2
\* number of answers the environment chooses freely in one run (model
\* replies, tool results, test outcomes); afterwards it repeats its last answer
MaxChoices == 2
\* latest clock value of the gateway model, in units of half a cache lifetime
MaxTime == 2
\* number of gateway operations in one behaviour of the gateway model
MaxOps == 2
\* number of providers whose API key is configured in the gateway model
MaxKeys == 1
\* number of tool-call ids, other than the tools' names, in the adapter model
MaxIds == 1

(***************************************************************************)
(* Program constants.                                                      *)
(***************************************************************************)
max_attempts == 5
ApproachMargin == 5
MinHtmlLen == 100
MinBlockLen == 50

(***************************************************************************)
(* Text: sequences of tokens.                                              *)
(*   " "          one blank                                                *)
(*   "PROSE"      a sentence of prose ("Here is what I did."), 19 chars     *)
(*   "HEAD"       "<!DOCTYPE html><html>...<body>..." without "</html>",     *)
(*                120 chars                                                *)
(*   "TAIL"       "...</div></body></html>", 23 chars, ends with "</html>"   *)
(*   "PY"         "import pandas as pd ... result = df", 40 chars           *)
(*   "FENCE_OPEN" "```html\n"                                               *)
(*   "FENCE"      "```"                                                     *)
(***************************************************************************)
Tokens == {" ", "PROSE", "HEAD", "TAIL", "PY", "FENCE_OPEN", "FENCE"}

TokLen(t) ==
    CASE t = " " -> 1
      [] t = "PROSE" -> 19
      [] t = "HEAD" -> 120
      [] t = "TAIL" -> 23
      [] t = "PY" -> 40
      [] t = "FENCE_OPEN" -> 8
      [] t = "FENCE" -> 3

RECURSIVE TextLen(_)
TextLen(s) == IF s = <<>> THEN 0 ELSE TokLen(Head(s)) + TextLen(Tail(s))

HasDoctype(t) == t = "HEAD"
HasHtmlTag(t) == t = "HEAD"
HasLt(t) == t \in {"HEAD", "TAIL"}
EndsHtml(t) == t = "TAIL"
IsFence(t) == t \in {"FENCE_OPEN", "FENCE"}
\* str.startswith(("#", "@", "import", ..., "```"))
CodePrefix(t) == t \in {"PY", "FENCE_OPEN", "FENCE"}

Contains(s, P(_)) == \E i \in 1..Len(s) : P(s[i])
FirstIdx(s, P(_)) == CHOOSE i \in 1..Len(s) : P(s[i]) /\ \A j \in 1..(i - 1) : ~P(s[j])

RECURSIVE LStrip(_)
LStrip(s) == IF s # <<>> /\ Head(s) = " " THEN LStrip(Tail(s)) ELSE s

RECURSIVE RStrip(_)
RStrip(s) ==
    IF s # <<>> /\ s[Len(s)] = " " THEN RStrip(SubSeq(s, 1, Len(s) - 1)) ELSE s

\* str.strip()
Strip(s) == RStrip(LStrip(s))

\* re.findall(r'```(?:html)?\s*\n(.*?)```', trimmed, re.DOTALL), each match stripped
RECURSIVE FenceBlocks(_)
FenceBlocks(s) ==
    IF ~Contains(s, LAMBDA t : t = "FENCE_OPEN") THEN <<>>
    ELSE LET i == FirstIdx(s, LAMBDA t : t = "FENCE_OPEN")
             rest == SubSeq(s, i + 1, Len(s))
         IN  IF ~Contains(rest, IsFence) THEN <<>>
             ELSE LET j == FirstIdx(rest, IsFence)
                  IN  <<Strip(SubSeq(rest, 1, j - 1))>>
                          \o FenceBlocks(SubSeq(rest, j + 1, Len(rest)))

\* Strategy 2 of strip_markdown_code_block: the HTML document found directly
HtmlBlocks(s) ==
    IF ~(Contains(s, HasDoctype) \/ Contains(s, HasHtmlTag)) THEN <<>>
    ELSE LET start == IF Contains(s, HasDoctype) THEN FirstIdx(s, HasDoctype)
                      ELSE FirstIdx(s, HasHtmlTag)
             html_content == SubSeq(s, start, Len(s))
         IN  IF Contains(html_content, EndsHtml)
             THEN <<Strip(SubSeq(html_content, 1, FirstIdx(html_content, EndsHtml)))>>
             ELSE <<Strip(html_content)>>

\* max(blocks, key=len): the first block of greatest length
MaxBlock(blocks) ==
    LET i == CHOOSE k \in 1..Len(blocks) :
                 /\ \A j \in 1..Len(blocks) : TextLen(blocks[j]) <= TextLen(blocks[k])
                 /\ \A j \in 1..(k - 1) : TextLen(blocks[j]) < TextLen(blocks[k])
    IN  blocks[i]

strip_markdown_code_block(raw) ==
    IF raw = <<>> THEN <<>>
    ELSE LET trimmed == Strip(raw)
             fenced == FenceBlocks(trimmed)
             code_blocks == IF fenced # <<>> THEN fenced ELSE HtmlBlocks(trimmed)
             valid_blocks == SelectSeq(code_blocks,
                                 LAMBDA b : TextLen(b) > MinBlockLen
                                            /\ (Contains(b, HasLt) \/ Contains(b, HasDoctype)))
         IN  IF code_blocks # <<>>
             THEN IF valid_blocks # <<>> THEN MaxBlock(valid_blocks)
                  ELSE MaxBlock(code_blocks)
             ELSE trimmed

(***************************************************************************)
(* Tool results and the dispatcher.                                        *)
(* A result is the dict a tool returns, reduced to the keys the loops      *)
(* read: has_error ("error" in result), error (its text, as pieces),       *)
(* success (result.get("success") is truthy), row_count (-1: key absent),  *)
(* test ("none": no "test" key; else the outcome of the nested test dict), *)
(* truncated, warning (added by _execute_tool for run_query).              *)
(***************************************************************************)
Res(has_error, error, success, row_count, test) ==
    [has_error |-> has_error, error |-> error, success |-> success,
     row_count |-> row_count, test |-> test, truncated |-> FALSE, warning |-> FALSE]

\* what the collaborators return
OkPlain == Res(FALSE, <<>>, FALSE, -1, "none")
OkSuccess == Res(FALSE, <<>>, TRUE, -1, "none")
OkTruncated == [OkSuccess EXCEPT !.truncated = TRUE]
OkRows == Res(FALSE, <<>>, TRUE, 1, "none")
OkZeroRows == Res(FALSE, <<>>, TRUE, 0, "none")
SavedTestRows == Res(FALSE, <<>>, TRUE, -1, "rows")
SavedTestZero == Res(FALSE, <<>>, TRUE, -1, "zero")
SavedTestFailed == Res(FALSE, <<>>, TRUE, -1, "failed")
\* {"error": ...} and {"success": False, "error": ...} alike
ErrOnly == Res(TRUE, <<"collaborator error">>, FALSE, -1, "none")

Missing(field) == Res(TRUE, <<"Missing ", field>>, FALSE, -1, "none")
UnknownFunction(func_name) == Res(TRUE, <<"Unknown function: ", func_name>>, FALSE, -1, "none")

\* the "required" lists of the tool declarations of the dispatched tools
Required(func_name) ==
    CASE func_name = "list_board_queries" -> {"board_id"}
      [] func_name = "create_or_update_query" -> {"board_id", "query_name", "python_code"}
      [] func_name = "delete_query" -> {"query_id"}
      [] func_name = "get_datastore_schema" -> {"datastore_id"}
      [] func_name = "run_query" -> {"python_code"}
      [] func_name = "execute_query_direct" -> {"datastore_id", "sql_query"}
      [] OTHER -> {}

\* the names _execute_tool dispatches on
HandledTools ==
    {"list_datastores", "list_boards", "list_board_queries", "get_query_code",
     "get_board_code", "search_board_code", "search_query_code",
     "create_or_update_query", "delete_query", "get_datastore_schema", "run_query",
     "execute_query_direct", "create_or_update_datastore", "test_datastore",
     "save_keyfile"}

\* the names of the declarations of the tool sets of ai_tools.py
BOARD_QUERY_TOOLS ==
    {"list_datastores", "list_board_queries", "get_code", "search_code", "edit_code",
     "create_or_update_query", "delete_query", "get_datastore_schema", "run_query",
     "execute_query_direct"}
DATASTORE_TOOLS ==
    {"list_datastores", "get_datastore_schema", "execute_query_direct", "manage_datastore"}
GENERAL_TOOLS ==
    {"list_datastores", "list_board_queries", "get_code", "search_code",
     "get_datastore_schema", "execute_query_direct", "manage_datastore"}

\* get_tools_for_context(context), as the set of the declared names
get_tools_for_context(context) ==
    CASE context \in {"board", "query"} -> BOARD_QUERY_TOOLS
      [] context = "datastore" -> DATASTORE_TOOLS
      [] OTHER -> GENERAL_TOOLS

\* the answers a collaborator can give to a call that reaches it
Collab(func_name) ==
    CASE func_name \in {"list_datastores", "list_boards", "list_board_queries"} -> {OkPlain}
      [] func_name = "get_datastore_schema" -> {OkSuccess, ErrOnly}
      [] func_name = "execute_query_direct" -> {OkSuccess, OkTruncated, ErrOnly}
      [] func_name = "run_query" -> {OkRows, OkZeroRows, ErrOnly}
      [] func_name = "create_or_update_query" ->
             {SavedTestRows, SavedTestZero, SavedTestFailed, ErrOnly}
      [] func_name = "delete_query" -> {OkSuccess, ErrOnly}
      [] OTHER -> {OkPlain, ErrOnly}

\* mutant: no default branch, every name reaches a collaborator
execute_tool_without_default(func_name, func_args, out) == out

\* _execute_tool(func_name, func_args): func_args is the set of argument keys
\* present, out the collaborator's answer when the call reaches it
execute_tool(func_name, func_args, out) ==
    CASE func_name = "list_board_queries" ->
             IF "board_id" \in func_args THEN out ELSE OkPlain
      [] func_name \in {"get_query_code", "delete_query"} ->
             IF "query_id" \in func_args THEN out ELSE Missing("query_id")
      [] func_name = "get_board_code" ->
             IF "board_id" \in func_args THEN out ELSE Missing("board_id")
      [] func_name = "test_datastore" ->
             IF "datastore_id" \in func_args THEN out ELSE Missing("datastore_id")
      [] func_name = "run_query" ->
             IF out.success /\ out.row_count \in {-1, 0}
             THEN [out EXCEPT !.warning = TRUE] ELSE out
      [] func_name \in HandledTools -> out
      [] OTHER -> UnknownFunction(func_name)

\* mutant: a result without a truthy success is an error
IsErrorWhenUnsuccessful(result) == ~result.success
\* is_error = "error" in result and not result.get("success")
IsError(result) == result.has_error /\ ~result.success

(***************************************************************************)
(* Events, messages, replies.                                              *)
(***************************************************************************)
Ev(type, tool, status, content, code) ==
    [type |-> type, tool |-> tool, status |-> status, content |-> content, code |-> code]

Thinking(content) == Ev("thinking", "", "", <<content>>, <<>>)
Progress(content) == Ev("progress", "", "", <<content>>, <<>>)
ToolCallEv(fc) == Ev("tool_call", fc.name, "started", <<>>, <<>>)
\* mutant: every outstanding call is announced as started at once
NextCallEventsAllStarted(fcs) == [i \in 1..Len(fcs) |-> ToolCallEv(fcs[i])]
\* "for fc in resp.function_calls: yield tool_call": the event of the call
\* the loop is about to dispatch, first of the calls not yet dispatched
NextCallEvents(fcs) == IF fcs # <<>> THEN <<ToolCallEv(Head(fcs))>> ELSE <<>>
\* mutant: the status of a failed tool is "failed"
ToolResultEvFailed(fc, result) ==
    IF result.has_error /\ ~result.success
    THEN Ev("tool_result", fc.name, "failed", result.error, <<>>)
    ELSE Ev("tool_result", fc.name, "success", <<>>, <<>>)
ToolResultEv(fc, result) ==
    IF IsError(result) THEN Ev("tool_result", fc.name, "error", result.error, <<>>)
    ELSE Ev("tool_result", fc.name, "success", <<>>, <<>>)
ErrorEv(content) == Ev("error", "", "", content, <<>>)
FinalEv(code, message) == Ev("final", "", "", message, code)

Msg(role, content, tool_calls, name) ==
    [role |-> role, content |-> content, tool_calls |-> tool_calls,
     tool_call_id |-> name, name |-> name]

UserMsg(content) == Msg("user", content, <<>>, "")
AssistantMsg(content) == Msg("assistant", content, <<>>, "")
\* mutant: the assistant message carries the first tool call only
ToolCallsMsgFirstOnly(function_calls) ==
    Msg("assistant", <<>>,
        <<[name |-> function_calls[1].name, args |-> function_calls[1].args,
           id |-> function_calls[1].name]>>, "")
\* tc_list = [{"name": fc.name, "args": fc.args, "id": fc.name} for fc in ...]
ToolCallsMsg(function_calls) ==
    Msg("assistant", <<>>,
        [i \in 1..Len(function_calls) |->
            [name |-> function_calls[i].name, args |-> function_calls[i].args,
             id |-> function_calls[i].name]], "")
\* mutant: the tool message does not carry the result
ToolMsgWithoutResult(fc, result) ==
    [role |-> "tool", content |-> <<>>, tool_calls |-> <<>>,
     tool_call_id |-> fc.name, name |-> fc.name]
ToolMsg(fc, result) ==
    [role |-> "tool", content |-> <<result>>, tool_calls |-> <<>>,
     tool_call_id |-> fc.name, name |-> fc.name]

\* mutant: the progress note is emitted for every successful tool
ToolStepEventsAlwaysNoted(fc, result, note_truncated) ==
    (IF result.success THEN <<Progress("Executed query: rows returned")>> ELSE <<>>)
    \o <<Ev("tool_result", fc.name,
            IF result.has_error /\ ~result.success THEN "error" ELSE "success",
            IF result.has_error /\ ~result.success THEN result.error ELSE <<>>, <<>>)>>

\* events of one dispatched call after its tool_call event (progress note of
\* execute_query_direct, then the tool_result)
ToolStepEvents(fc, result, note_truncated) ==
    (IF fc.name = "execute_query_direct" /\ result.success
     THEN <<Progress(IF note_truncated /\ result.truncated
                     THEN "Executed query: rows returned (truncated)"
                     ELSE "Executed query: rows returned")>>
     ELSE <<>>)
    \o <<ToolResultEv(fc, result)>>

BlockedReasons == {"SAFETY", "RECITATION", "OTHER"}
BlockedContent(finish_reason) ==
    <<"Response was blocked (", finish_reason, "). Try rephrasing.">>
ApiErrorContent == <<"AI API error: ", "vendor error">>

(***************************************************************************)
(* The environment of a run: the replies of call_llm.                      *)
(* A reply is an LLMResponse (text None and "" are both <<>>) or a raised  *)
(* exception; each function call carries the answer its collaborator will  *)
(* give when the dispatcher reaches it.                                    *)
(***************************************************************************)
FC(name, args, out) == [name |-> name, args |-> args, out |-> out]

Raised == [raised |-> TRUE, text |-> <<>>, function_calls |-> <<>>, finish_reason |-> ""]
Response(text, function_calls, finish_reason) ==
    [raised |-> FALSE, text |-> text, function_calls |-> function_calls,
     finish_reason |-> finish_reason]

SchemaCall(out) == FC("get_datastore_schema", {"datastore_id"}, out)
\* get_code is declared to the model (ai_tools.TOOL_GET_CODE), not dispatched
UndispatchedCall == FC("get_code", {"type", "id"}, OkPlain)

Contexts == {"board", "datastore", "general", "query"}
ToolLoopContexts == {"datastore", "general"}

ToolTurns(c) ==
    {<<SchemaCall(OkSuccess)>>, <<UndispatchedCall>>}
    \cup (IF c = "query" THEN {}
          ELSE {<<SchemaCall(ErrOnly)>>,
                <<FC("execute_query_direct", {"datastore_id", "sql_query"}, OkTruncated)>>,
                <<SchemaCall(OkSuccess), UndispatchedCall>>})
    \cup (IF c \in ToolLoopContexts
          THEN {<<FC("list_board_queries", {}, OkPlain)>>,
                <<FC("delete_query", {}, OkSuccess)>>,
                <<SchemaCall(OkSuccess), SchemaCall(ErrOnly)>>}
          ELSE {})
    \cup (IF c \in {"board", "query"}
          THEN {<<FC("run_query", {"python_code"}, OkZeroRows)>>} ELSE {})
    \cup (IF c = "board"
          THEN {<<FC("create_or_update_query", {"board_id", "query_name", "python_code"},
                     SavedTestRows)>>}
          ELSE {})

Texts(c) ==
    CASE c = "board" -> {<<>>, <<"PROSE">>, <<"HEAD">>, <<"TAIL", " ">>, <<"HEAD", "TAIL">>,
                         <<"PROSE", " ", "HEAD", "TAIL">>,
                         <<"FENCE_OPEN", "HEAD", "TAIL", "FENCE">>}
      [] c = "query" -> {<<>>, <<"PROSE">>, <<"PY", " ">>}
      [] OTHER -> {<<>>, <<" ">>, <<"PROSE">>, <<"PROSE", " ">>}

Truncated(c) ==
    CASE c = "board" -> {<<>>, <<"HEAD">>, <<"PROSE", " ">>}
      [] c = "query" -> {<<" ", "PY">>}
      [] OTHER -> {<<>>, <<"PROSE", " ">>, <<" ", "PROSE">>}

Replies(c) ==
    {Raised, Response(<<>>, <<>>, "SAFETY")}
    \cup (IF c \in ToolLoopContexts
          THEN {Response(<<"PROSE">>, <<SchemaCall(OkSuccess)>>, "OTHER")} ELSE {})
    \cup {Response(<<>>, calls, "TOOL_CALLS") : calls \in ToolTurns(c)}
    \cup {Response(t, <<>>, "STOP") : t \in Texts(c)}
    \cup {Response(t, <<>>, "MAX_TOKENS") : t \in Truncated(c)}

\* what the HTTP test of generated query code answers
TestOutcomes == {"ok", "ok_sample", "not_ok", "exception"}

(***************************************************************************)
(* State.                                                                  *)
(***************************************************************************)
VARIABLES
    ctx,                \* context of the request
    max_tool_iterations,
    has_code,           \* the request carries current code
    query_id,           \* the request names a query
    datastore_id,       \* the request names a datastore
    board_row,          \* "SELECT id FROM boards LIMIT 1" finds a row
    pc,                 \* position of the run: start, call, llm, tool, test, done
    messages,           \* the transcript
    events,             \* the events emitted so far
    tool_iteration,
    attempt,
    any_tools_called,
    query_created,
    accumulated_text,
    continuation_count,
    generated,          \* edited_code / generated_code (<<>>: None)
    last_tool_results,
    pending,            \* function calls of the current turn not yet dispatched
    last_error,         \* <<>>: the name last_error is not bound
    choices,            \* free answers the environment has left
    last_reply,
    last_test,
    calls,              \* number of call_llm invocations of the run
    replies,            \* the replies received, in order
    loop_start,         \* number of events emitted before the loop was entered
    nudges,             \* number of nudge messages appended for empty replies
    stored_code         \* board_queries.python_code of the query the request names

run_vars ==
    <<ctx, max_tool_iterations, has_code, query_id, datastore_id, board_row, pc, messages,
      events, tool_iteration, attempt, any_tools_called, query_created, accumulated_text,
      continuation_count, generated, last_tool_results, pending, last_error, choices,
      last_reply, last_test, calls, replies, loop_start, nudges, stored_code>>

\* the gateway's state
VARIABLES
    keys,               \* the providers whose API key is configured
    model_cache,        \* _model_cache: [models, fetched_at]
    now,                \* time.time()
    last_call,          \* what the last call_llm did
    ops,                \* gateway operations so far
    wire,               \* what the last provider adapter call sent and returned
    suspended           \* the local variables of a second run, suspended at an await

gw_vars == <<keys, model_cache, now, last_call, ops, wire, suspended>>

vars == <<run_vars, gw_vars>>

Budgets == (0..MaxIter) \cup {ApproachMargin + 1}

Emit(evs) == events' = events \o evs
Append2(msgs) == messages' = messages \o msgs

ReplyChoices == IF choices > 0 THEN Replies(ctx) ELSE {last_reply}
TestChoices == IF choices > 0 \/ last_test = "none" THEN TestOutcomes ELSE {last_test}
Chosen == choices' = IF choices > 0 THEN choices - 1 ELSE 0

\* the reply r arrives: history
Received(r) ==
    /\ Chosen
    /\ last_reply' = r
    /\ replies' = Append(replies, r)

\* the code the request's query holds before the run
StoredCode == <<"STORED">>

RunInit ==
    /\ ctx \in Contexts
    /\ max_tool_iterations \in Budgets
    /\ has_code \in (IF ctx = "board" THEN BOOLEAN ELSE {FALSE})
    /\ query_id \in (IF ctx = "query" THEN BOOLEAN ELSE {FALSE})
    /\ datastore_id \in (IF ctx = "query" THEN BOOLEAN ELSE {FALSE})
    /\ board_row \in (IF ctx = "query" /\ datastore_id /\ ~query_id THEN BOOLEAN ELSE {TRUE})
    /\ pc = "start"
    /\ messages = <<>>
    /\ events = <<>>
    /\ tool_iteration = 0
    /\ attempt = 0
    /\ any_tools_called = FALSE
    /\ query_created = FALSE
    /\ accumulated_text = <<>>
    /\ continuation_count = 0
    /\ generated = <<>>
    /\ last_tool_results = <<>>
    /\ pending = <<>>
    /\ last_error = <<>>
    /\ choices = MaxChoices
    /\ last_reply = Raised
    /\ last_test = "none"
    /\ calls = 0
    /\ replies = <<>>
    /\ loop_start = 0
    /\ nudges = 0
    /\ stored_code = (IF query_id THEN StoredCode ELSE <<>>)

UserRequest == UserMsg(<<"User request">>)

(***************************************************************************)
(* Pieces of the loops that the three loops share or that are decided by   *)
(* one line of code.                                                       *)
(***************************************************************************)
\* while tool_iteration < max_tool_iterations
\* mutant: the loop runs once more after the budget is spent
BudgetLeftOneMore(iteration, budget) == iteration <= budget

\* while tool_iteration < max_tool_iterations
BudgetLeft(iteration, budget) == iteration < budget

\* mutant: the fragment is not added
AccumulateDrops(acc, raw_text) == acc

\* accumulated_text += raw_text
Accumulate(acc, raw_text) == acc \o raw_text

\* if accumulated_text: raw_text = accumulated_text + raw_text
WithPrefix(acc, raw_text) == IF acc # <<>> THEN acc \o raw_text ELSE raw_text

\* if resp.finish_reason in ("SAFETY", "RECITATION", "OTHER")
IsBlocked(resp) == resp.finish_reason \in BlockedReasons

\* mutant: the "Continue" turn is appended without the partial text
ContinueMsgsWithoutPartial(raw_text) == <<UserMsg(<<"Continue">>)>>

\* MAX_TOKENS with budget left: the partial text and a "Continue" turn
ContinueMsgs(raw_text) == <<AssistantMsg(raw_text), UserMsg(<<"Continue">>)>>

request_vars == <<ctx, max_tool_iterations, has_code, query_id, datastore_id, board_row>>
db_vars == <<stored_code>>
env_vars == <<choices, last_reply, last_test, replies>>

(***************************************************************************)
(* _datastore_context_stream / _general_context_stream: the prelude of the *)
(* shared tool loop.  get_model_info raises for a model of no known        *)
(* provider; generate_stream turns the exception into an error event.      *)
(***************************************************************************)
ToolLoopStart ==
    /\ pc = "start"
    /\ ctx \in ToolLoopContexts
    /\ \E model_known \in BOOLEAN :
         IF model_known
         THEN /\ Emit(<<Thinking("Analyzing your request..."), Progress("Processing...")>>)
              /\ messages' = <<UserRequest>>
              /\ loop_start' = Len(events) + 2
              /\ pc' = "call"
         ELSE /\ Emit(<<Thinking("Analyzing your request..."), ErrorEv(<<"Unknown model">>)>>)
              /\ pc' = "done"
              /\ UNCHANGED <<messages, loop_start>>
    /\ UNCHANGED <<gw_vars, db_vars, request_vars, env_vars, tool_iteration, attempt, any_tools_called,
                   query_created, accumulated_text, continuation_count, generated,
                   last_tool_results, pending, last_error, calls, nudges>>

(***************************************************************************)
(* _tool_loop_stream                                                       *)
(***************************************************************************)
\* the loop head: one more call_llm, or the budget is spent
ToolLoopHead ==
    /\ pc = "call"
    /\ ctx \in ToolLoopContexts
    /\ IF BudgetLeft(tool_iteration, max_tool_iterations)
       THEN /\ tool_iteration' = tool_iteration + 1
            /\ calls' = calls + 1
            /\ pc' = "llm"
            /\ UNCHANGED events
       ELSE /\ Emit(<<ErrorEv(<<"Reached maximum iterations">>)>>)
            /\ pc' = "done"
            /\ UNCHANGED <<tool_iteration, calls>>
    /\ UNCHANGED <<gw_vars, db_vars, request_vars, env_vars, messages, attempt, any_tools_called, query_created,
                   accumulated_text, continuation_count, generated, last_tool_results,
                   pending, last_error, loop_start, nudges>>

\* what _tool_loop_stream does with a text turn (no function calls, not
\* blocked): [events, messages, accumulated_text, continuation_count, nudges, pc]
ToolLoopText(resp) ==
    LET raw_text == resp.text
        full == WithPrefix(accumulated_text, raw_text)
        stay == [events |-> <<>>, messages |-> <<>>, acc |-> accumulated_text,
                 cont |-> continuation_count, nudges |-> nudges, pc |-> "call"]
    IN  IF resp.finish_reason = "MAX_TOKENS"
        THEN IF tool_iteration < max_tool_iterations
             THEN [stay EXCEPT !.acc = Accumulate(accumulated_text, raw_text),
                               !.cont = continuation_count + 1,
                               !.messages = ContinueMsgs(raw_text)]
             ELSE [stay EXCEPT !.events = <<ErrorEv(<<"Response too long.">>)>>,
                               !.pc = "done"]
        ELSE IF full = <<>>
        THEN IF any_tools_called /\ tool_iteration < max_tool_iterations
             THEN [stay EXCEPT !.messages =
                                   <<UserMsg(<<"Provide a brief summary of what was done.">>)>>,
                               !.nudges = nudges + 1]
             ELSE IF ~any_tools_called /\ tool_iteration = 1
             THEN [stay EXCEPT !.messages =
                                   <<UserMsg(<<"Use the available tools to help answer.">>)>>,
                               !.nudges = nudges + 1]
             ELSE [stay EXCEPT !.events = <<FinalEv(<<>>, <<"No response generated.">>)>>,
                               !.pc = "done"]
        ELSE [stay EXCEPT !.events = <<FinalEv(<<>>, Strip(full))>>, !.pc = "done"]

\* call_llm returns or raises
ToolLoopReply ==
    /\ pc = "llm"
    /\ ctx \in ToolLoopContexts
    /\ \E resp \in ReplyChoices :
         /\ Received(resp)
         /\ IF resp.raised
            THEN /\ Emit(<<ErrorEv(ApiErrorContent)>>)
                 /\ pc' = "done"
                 /\ UNCHANGED <<messages, any_tools_called, accumulated_text,
                                continuation_count, pending, nudges>>
            ELSE IF IsBlocked(resp)
            THEN /\ Emit(<<ErrorEv(BlockedContent(resp.finish_reason))>>)
                 /\ pc' = "done"
                 /\ UNCHANGED <<messages, any_tools_called, accumulated_text,
                                continuation_count, pending, nudges>>
            ELSE IF resp.function_calls # <<>>
            THEN /\ any_tools_called' = TRUE
                 /\ Append2(<<ToolCallsMsg(resp.function_calls)>>)
                 /\ Emit(NextCallEvents(resp.function_calls))
                 /\ pending' = resp.function_calls
                 /\ pc' = "tool"
                 /\ UNCHANGED <<accumulated_text, continuation_count, nudges>>
            ELSE \E t \in {ToolLoopText(resp)} :
                     /\ Emit(t.events)
                     /\ Append2(t.messages)
                     /\ accumulated_text' = t.acc
                     /\ continuation_count' = t.cont
                     /\ nudges' = t.nudges
                     /\ pc' = t.pc
                     /\ UNCHANGED <<any_tools_called, pending>>
    /\ UNCHANGED <<gw_vars, db_vars, request_vars, last_test, tool_iteration, attempt, query_created, generated,
                   last_tool_results, last_error, calls, loop_start>>

\* _execute_tool returns for the first pending call; the next call starts
ToolLoopToolReturn ==
    /\ pc = "tool"
    /\ ctx \in ToolLoopContexts
    /\ \E fc \in {Head(pending)} :
       \E result \in {execute_tool(fc.name, fc.args, fc.out)} :
       \E rest \in {Tail(pending)} :
           /\ Emit(ToolStepEvents(fc, result, FALSE)
                   \o NextCallEvents(rest))
           /\ Append2(<<ToolMsg(fc, result)>>)
           /\ pending' = rest
           /\ pc' = IF rest # <<>> THEN "tool" ELSE "call"
    /\ UNCHANGED <<gw_vars, db_vars, request_vars, env_vars, tool_iteration, attempt, any_tools_called,
                   query_created, accumulated_text, continuation_count, generated,
                   last_tool_results, last_error, calls, loop_start, nudges>>

(***************************************************************************)
(* board_helper_stream.generate_stream, board context                      *)
(***************************************************************************)
\* validate_html: the parser reports no errors; a document without the
\* <html>, <head> and <body> tags gets three warnings
ValidationEvents(code) ==
    <<Progress("validation summary")>>
    \o (IF Contains(code, HasHtmlTag) THEN <<>>
        ELSE <<Progress("Warning: Missing <html> tag"), Progress("Warning: Missing <head> tag"),
               Progress("Warning: Missing <body> tag")>>)

\* the statements after the while loop
BoardFinish(edited_code, iteration) ==
    IF edited_code = <<>>
    THEN <<ErrorEv(<<"Failed to generate code">>)>>
    ELSE (IF iteration >= max_tool_iterations
          THEN <<Progress("Reached iteration limit")>> ELSE <<>>)
         \o <<Progress("Code generated"), Thinking("Validating code structure..."),
              Progress("Checking code...")>>
         \o ValidationEvents(edited_code)
         \o (IF has_code THEN <<Ev("code_delta", "", "", <<>>, edited_code)>> ELSE <<>>)
         \o <<FinalEv(edited_code, <<"HTML generated!">>)>>

\* is_html and not is_explanation
LooksLikeHtml(edited_code) ==
    /\ edited_code # <<>>
    /\ Contains(edited_code, HasDoctype) \/ Contains(edited_code, HasHtmlTag)
    /\ ~(TextLen(edited_code) < MinHtmlLen \/ ~Contains(edited_code, HasLt))

\* the zero-rows test over last_tool_results
ZeroRows(results) ==
    \E i \in 1..Len(results) :
        /\ results[i].tool \in {"run_query", "create_or_update_query"}
        /\ \/ results[i].result.success /\ results[i].result.row_count \in {-1, 0}
           \/ results[i].result.test = "zero"

BoardStart ==
    /\ pc = "start"
    /\ ctx = "board"
    /\ \E model_known \in BOOLEAN :
         IF model_known
         THEN /\ Emit(<<Thinking("Analyzing your request..."),
                        Progress("Processing your request...")>>)
              /\ messages' = <<UserRequest>>
              /\ loop_start' = Len(events) + 2
              /\ pc' = "call"
         ELSE /\ Emit(<<Thinking("Analyzing your request..."), ErrorEv(<<"Unknown model">>)>>)
              /\ pc' = "done"
              /\ UNCHANGED <<messages, loop_start>>
    /\ UNCHANGED <<gw_vars, db_vars, request_vars, env_vars, tool_iteration, attempt, any_tools_called,
                   query_created, accumulated_text, continuation_count, generated,
                   last_tool_results, pending, last_error, calls, nudges>>

BoardHead ==
    /\ pc = "call"
    /\ ctx = "board"
    /\ IF BudgetLeft(tool_iteration, max_tool_iterations)
       THEN /\ tool_iteration' = tool_iteration + 1
            /\ Emit(IF tool_iteration + 1 = max_tool_iterations - ApproachMargin
                    THEN <<Progress("Approaching iteration limit")>> ELSE <<>>)
            /\ calls' = calls + 1
            /\ pc' = "llm"
       ELSE /\ Emit(BoardFinish(generated, tool_iteration))
            /\ pc' = "done"
            /\ UNCHANGED <<tool_iteration, calls>>
    /\ UNCHANGED <<gw_vars, db_vars, request_vars, env_vars, messages, attempt, any_tools_called, query_created,
                   accumulated_text, continuation_count, generated, last_tool_results,
                   pending, last_error, loop_start, nudges>>

\* mutant: the corrective instruction is appended without the assistant's text
CorrectiveMsgsWithoutText(raw_text) == <<UserMsg(<<"Output ONLY the complete HTML code">>)>>
\* text instead of HTML with budget left: the text and a corrective instruction
CorrectiveMsgs(raw_text) ==
    <<AssistantMsg(raw_text), UserMsg(<<"Output ONLY the complete HTML code">>)>>

\* what the board loop does with a text turn: [events, messages, acc, cont,
\* nudges, generated, pc]
BoardText(resp) ==
    LET raw_text == resp.text
        full == WithPrefix(accumulated_text, raw_text)
        edited_code == strip_markdown_code_block(Strip(full))
        stay == [events |-> <<>>, messages |-> <<>>, acc |-> accumulated_text,
                 cont |-> continuation_count, nudges |-> nudges, generated |-> generated,
                 pc |-> "call"]
        done_long == IF accumulated_text # <<>> /\ continuation_count > 1
                     THEN <<Progress("Completed long response")>> ELSE <<>>
    IN  IF resp.finish_reason = "MAX_TOKENS"
        THEN IF tool_iteration < max_tool_iterations
             THEN [stay EXCEPT !.acc = Accumulate(accumulated_text, raw_text),
                               !.cont = continuation_count + 1,
                               !.events = IF continuation_count + 1 = 1
                                          THEN <<Progress("Generating long response")>>
                                          ELSE <<>>,
                               !.messages = ContinueMsgs(raw_text)]
             ELSE [stay EXCEPT !.events = <<ErrorEv(<<"Response too long and hit iteration limit.">>)>>,
                               !.pc = "done"]
        ELSE IF full = <<>>
        THEN IF any_tools_called /\ tool_iteration < max_tool_iterations
             THEN [stay EXCEPT !.events = done_long \o <<Progress("Continuing...")>>,
                               !.messages = <<UserMsg(<<IF query_created
                                                        THEN "Now provide a brief summary."
                                                        ELSE "Continue with the original task.">>)>>,
                               !.nudges = nudges + 1]
             ELSE IF ~any_tools_called /\ tool_iteration = 1
             THEN [stay EXCEPT !.events = done_long \o <<Progress("Gathering context...")>>,
                               !.messages = <<UserMsg(<<"Gather context by calling the appropriate tools">>)>>,
                               !.nudges = nudges + 1]
             ELSE IF ~any_tools_called
             THEN [stay EXCEPT !.events = done_long
                                   \o <<ErrorEv(<<"Could not understand your request.">>)>>,
                               !.pc = "done"]
             ELSE [stay EXCEPT !.events = done_long
                                   \o <<FinalEv(<<>>, <<"Tools executed but could not generate a final response.">>)>>,
                               !.pc = "done"]
        ELSE IF query_created
        THEN [stay EXCEPT !.events = done_long \o <<FinalEv(<<>>, Strip(full))>>,
                          !.pc = "done"]
        ELSE IF ~LooksLikeHtml(edited_code)
        THEN IF tool_iteration < max_tool_iterations
             THEN [stay EXCEPT !.events = done_long
                                   \o <<Progress("Received text instead of HTML, requesting code...")>>,
                               !.messages = CorrectiveMsgs(full),
                               !.generated = edited_code]
             ELSE [stay EXCEPT !.events = done_long
                                   \o <<ErrorEv(<<"AI returned text instead of HTML code.">>)>>,
                               !.generated = edited_code,
                               !.pc = "done"]
        ELSE [stay EXCEPT !.events = done_long \o BoardFinish(edited_code, tool_iteration),
                          !.generated = edited_code,
                          !.pc = "done"]

BoardReply ==
    /\ pc = "llm"
    /\ ctx = "board"
    /\ \E resp \in ReplyChoices :
         /\ Received(resp)
         /\ IF resp.raised
            THEN /\ Emit(<<ErrorEv(ApiErrorContent)>>)
                 /\ pc' = "done"
                 /\ UNCHANGED <<messages, any_tools_called, accumulated_text,
                                continuation_count, pending, nudges, generated,
                                last_tool_results>>
            ELSE IF IsBlocked(resp)
            THEN /\ Emit(<<ErrorEv(BlockedContent(resp.finish_reason))>>)
                 /\ pc' = "done"
                 /\ UNCHANGED <<messages, any_tools_called, accumulated_text,
                                continuation_count, pending, nudges, generated,
                                last_tool_results>>
            ELSE IF resp.function_calls # <<>>
            THEN /\ any_tools_called' = TRUE
                 /\ last_tool_results' = <<>>
                 /\ Append2(<<ToolCallsMsg(resp.function_calls)>>)
                 /\ Emit(NextCallEvents(resp.function_calls))
                 /\ pending' = resp.function_calls
                 /\ pc' = "tool"
                 /\ UNCHANGED <<accumulated_text, continuation_count, nudges, generated>>
            ELSE \E t \in {BoardText(resp)} :
                     /\ Emit(t.events)
                     /\ Append2(t.messages)
                     /\ accumulated_text' = t.acc
                     /\ continuation_count' = t.cont
                     /\ nudges' = t.nudges
                     /\ generated' = t.generated
                     /\ pc' = t.pc
                     /\ UNCHANGED <<any_tools_called, pending, last_tool_results>>
    /\ UNCHANGED <<gw_vars, db_vars, request_vars, last_test, tool_iteration, attempt, query_created,
                   last_error, calls, loop_start>>

BoardToolReturn ==
    /\ pc = "tool"
    /\ ctx = "board"
    /\ \E fc \in {Head(pending)} :
       \E result \in {execute_tool(fc.name, fc.args, fc.out)} :
       \E rest \in {Tail(pending)} :
       \E results \in {Append(last_tool_results, [tool |-> fc.name, result |-> result])} :
       \E zero_rows \in {rest = <<>> /\ ZeroRows(results)} :
           /\ Emit(ToolStepEvents(fc, result, TRUE)
                   \o NextCallEvents(rest)
                   \o (IF zero_rows
                       THEN <<Progress("Query returned 0 rows - investigating...")>>
                       ELSE <<>>))
           /\ query_created' = (query_created
                                \/ (fc.name \in {"create_or_update_query", "delete_query"}
                                    /\ result.success))
           /\ last_tool_results' = results
           /\ Append2(<<ToolMsg(fc, result)>>
                      \o (IF zero_rows
                          THEN <<UserMsg(<<"WARNING: The query returned 0 rows.">>)>>
                          ELSE <<>>))
           /\ pending' = rest
           /\ pc' = IF rest # <<>> THEN "tool" ELSE "call"
    /\ UNCHANGED <<gw_vars, db_vars, request_vars, env_vars, tool_iteration, attempt, any_tools_called,
                   accumulated_text, continuation_count, generated, last_error, calls,
                   loop_start, nudges>>

BoardNext == BoardStart \/ BoardHead \/ BoardReply \/ BoardToolReturn

(***************************************************************************)
(* exploration_helper_stream, query context                                *)
(***************************************************************************)
\* the handler "except Exception as e" of an attempt:
\* [events, last_error, pc]
QueryFail(err) ==
    [events |-> <<Progress("Generation error")>>
                \o (IF attempt = max_attempts
                    THEN <<Ev("needs_user_input", "", "", err, <<>>),
                           ErrorEv(<<"Failed after 5 attempts. Last error: ">> \o err)>>
                    ELSE <<>>),
     last_error |-> err,
     pc |-> IF attempt = max_attempts THEN "done" ELSE "attempt"]

\* "UPDATE board_queries SET python_code=$1 WHERE id=$2" with the generated
\* code, before the test request; test_query_id is the request's query_id
\* when there is one and a temporary row otherwise; updated is false when the
\* statement itself raised
UpdateQueryCode(stored, generated_code, updated) ==
    IF query_id /\ updated THEN generated_code ELSE stored

\* the statements after the while loop, up to the test request:
\* [events, last_error, pc]
QueryAfterLoop(generated_code) ==
    IF generated_code = <<>>
    THEN QueryFail(<<"Failed to generate code">>)
    ELSE LET made == <<Progress("Code generated"),
                       Ev("code_delta", "", "", <<>>, generated_code)>>
         IN  IF query_id \/ datastore_id
             THEN LET testing == <<Thinking("Let me test this code to make sure it works..."),
                                   Progress("Testing the generated code...")>>
                                 \o (IF ~query_id
                                     THEN <<Progress("  Creating temporary test query...")>>
                                     ELSE <<>>)
                  IN  [events |-> made \o testing, last_error |-> last_error,
                       pc |-> IF query_id \/ board_row THEN "test" ELSE "attempt"]
             ELSE [events |-> made \o <<Progress("Skipping test (no datastore or query ID)"),
                                        FinalEv(generated_code, <<"Code generated (not tested).">>)>>,
                   last_error |-> last_error, pc |-> "done"]

QueryStart ==
    /\ pc = "start"
    /\ ctx = "query"
    /\ \E model_known \in BOOLEAN, schema \in {"found", "none"} :
         LET fetch == IF datastore_id
                      THEN <<Thinking("I need to understand your database schema first..."),
                             Progress("Fetching database schema...")>>
                           \o (IF schema = "found" THEN <<Progress("Found schemas")>> ELSE <<>>)
                      ELSE <<>>
         IN  /\ (schema = "found" => datastore_id)
             /\ IF model_known
                THEN /\ Emit(fetch)
                     /\ loop_start' = Len(events) + Len(fetch)
                     /\ pc' = "attempt"
                ELSE /\ Emit(fetch \o <<ErrorEv(<<"Unknown model">>)>>)
                     /\ pc' = "done"
                     /\ UNCHANGED loop_start
    /\ UNCHANGED <<gw_vars, db_vars, request_vars, env_vars, messages, tool_iteration, attempt,
                   any_tools_called, query_created, accumulated_text, continuation_count,
                   generated, last_tool_results, pending, last_error, calls, nudges>>

\* for attempt in range(1, max_attempts + 1): the next attempt starts with a
\* fresh transcript, or the generator ends
QueryAttempt ==
    /\ pc = "attempt"
    /\ ctx = "query"
    /\ IF attempt < max_attempts
       THEN /\ attempt' = attempt + 1
            /\ Emit(<<Thinking(IF attempt + 1 = 1
                               THEN "Now I'll write Python code to fulfill your request..."
                               ELSE "Let me fix the error and try again..."),
                      Progress("Generating Python code...")>>)
            /\ messages' = <<UserMsg(<<"User request">>
                                     \o (IF attempt + 1 > 1 /\ last_error # <<>>
                                         THEN <<"Previous attempt failed: ">> \o last_error
                                         ELSE <<>>))>>
            /\ generated' = <<>>
            /\ tool_iteration' = 0
            /\ accumulated_text' = <<>>
            /\ continuation_count' = 0
            /\ pc' = "call"
       ELSE /\ pc' = "done"
            /\ UNCHANGED <<attempt, events, messages, generated, tool_iteration,
                           accumulated_text, continuation_count>>
    /\ UNCHANGED <<gw_vars, db_vars, request_vars, env_vars, any_tools_called, query_created,
                   last_tool_results, pending, last_error, calls, loop_start, nudges>>

QueryHead ==
    /\ pc = "call"
    /\ ctx = "query"
    /\ IF BudgetLeft(tool_iteration, max_tool_iterations)
       THEN /\ tool_iteration' = tool_iteration + 1
            /\ Emit(IF tool_iteration + 1 = max_tool_iterations - ApproachMargin
                    THEN <<Progress("Approaching iteration limit")>> ELSE <<>>)
            /\ calls' = calls + 1
            /\ pc' = "llm"
            /\ UNCHANGED last_error
       ELSE \E f \in {QueryAfterLoop(generated)} :
                /\ Emit(f.events)
                /\ last_error' = f.last_error
                /\ pc' = f.pc
                /\ UNCHANGED <<tool_iteration, calls>>
    /\ UNCHANGED <<gw_vars, db_vars, request_vars, env_vars, messages, attempt, any_tools_called, query_created,
                   accumulated_text, continuation_count, generated, last_tool_results,
                   pending, loop_start, nudges>>

\* what the query loop does with a text turn: [events, messages, acc, cont,
\* nudges, generated, last_error, pc]
QueryText(resp) ==
    LET raw_text == resp.text
        full == WithPrefix(accumulated_text, raw_text)
        stripped == Strip(full)
        stay == [events |-> <<>>, messages |-> <<>>, acc |-> accumulated_text,
                 cont |-> continuation_count, nudges |-> nudges, generated |-> generated,
                 last_error |-> last_error, pc |-> "call"]
        done_long == IF accumulated_text # <<>> /\ continuation_count > 1
                     THEN <<Progress("Completed long response")>> ELSE <<>>
        failed(err) == LET f == QueryFail(err)
                       IN  [stay EXCEPT !.events = done_long \o f.events,
                                        !.last_error = f.last_error, !.pc = f.pc]
    IN  IF resp.finish_reason = "MAX_TOKENS"
        THEN IF tool_iteration < max_tool_iterations
             THEN [stay EXCEPT !.acc = Accumulate(accumulated_text, raw_text),
                               !.cont = continuation_count + 1,
                               !.events = IF continuation_count + 1 = 1
                                          THEN <<Progress("Generating long response")>>
                                          ELSE <<>>,
                               !.messages = ContinueMsgs(raw_text)]
             ELSE LET f == QueryFail(<<"Response too long. Try smaller tasks.">>)
                  IN  [stay EXCEPT !.events = f.events, !.last_error = f.last_error,
                                   !.pc = f.pc]
        ELSE IF stripped # <<>>
        THEN IF ~CodePrefix(Head(stripped))
             THEN [stay EXCEPT !.events = done_long
                                   \o <<Progress("AI returned text instead of code, reprompting...")>>,
                               !.messages = <<AssistantMsg(full),
                                              UserMsg(<<"Output ONLY valid Python code.">>)>>]
             ELSE LET code == strip_markdown_code_block(stripped)
                      f == QueryAfterLoop(code)
                  IN  [stay EXCEPT !.events = done_long \o f.events,
                                   !.generated = code,
                                   !.last_error = f.last_error, !.pc = f.pc]
        ELSE IF tool_iteration < max_tool_iterations
        THEN [stay EXCEPT !.events = done_long
                              \o <<Progress("No response from AI, reprompting...")>>,
                          !.messages = <<UserMsg(<<"Generate the Python query code now.">>)>>,
                          !.nudges = nudges + 1]
        ELSE failed(<<"Too many iterations without code generation">>)

QueryReply ==
    /\ pc = "llm"
    /\ ctx = "query"
    /\ \E resp \in ReplyChoices :
         /\ Received(resp)
         /\ IF resp.raised \/ IsBlocked(resp)
            THEN \E f \in {QueryFail(IF resp.raised THEN ApiErrorContent
                                     ELSE BlockedContent(resp.finish_reason))} :
                     /\ Emit(f.events)
                     /\ last_error' = f.last_error
                     /\ pc' = f.pc
                     /\ UNCHANGED <<messages, accumulated_text, continuation_count, pending,
                                    nudges, generated>>
            ELSE IF resp.function_calls # <<>>
            THEN /\ Append2(<<ToolCallsMsg(resp.function_calls)>>)
                 /\ Emit(NextCallEvents(resp.function_calls))
                 /\ pending' = resp.function_calls
                 /\ pc' = "tool"
                 /\ UNCHANGED <<accumulated_text, continuation_count, nudges, generated,
                                last_error>>
            ELSE \E t \in {QueryText(resp)} :
                     /\ Emit(t.events)
                     /\ Append2(t.messages)
                     /\ accumulated_text' = t.acc
                     /\ continuation_count' = t.cont
                     /\ nudges' = t.nudges
                     /\ generated' = t.generated
                     /\ last_error' = t.last_error
                     /\ pc' = t.pc
                     /\ UNCHANGED pending
    /\ UNCHANGED <<gw_vars, db_vars, request_vars, last_test, tool_iteration, attempt, any_tools_called,
                   query_created, last_tool_results, calls, loop_start>>

QueryToolReturn ==
    /\ pc = "tool"
    /\ ctx = "query"
    /\ \E fc \in {Head(pending)} :
       \E result \in {execute_tool(fc.name, fc.args, fc.out)} :
       \E rest \in {Tail(pending)} :
           /\ Emit(ToolStepEvents(fc, result, TRUE)
                   \o NextCallEvents(rest))
           /\ Append2(<<ToolMsg(fc, result)>>)
           /\ pending' = rest
           /\ pc' = IF rest # <<>> THEN "tool" ELSE "call"
    /\ UNCHANGED <<gw_vars, db_vars, request_vars, env_vars, tool_iteration, attempt, any_tools_called,
                   query_created, accumulated_text, continuation_count, generated,
                   last_tool_results, last_error, calls, loop_start, nudges>>

\* the POST to /explore of the generated code answers, or raises
QueryTest ==
    /\ pc = "test"
    /\ ctx = "query"
    /\ \E outcome \in TestChoices :
         /\ Chosen
         /\ last_test' = outcome
         /\ \E updated \in (IF outcome = "exception" THEN BOOLEAN ELSE {TRUE}) :
                stored_code' = UpdateQueryCode(stored_code, generated, updated)
         /\ IF outcome \in {"ok", "ok_sample"}
            THEN /\ Emit(<<Progress("Test passed!"), Ev("test_result", "", "success", <<>>, <<>>)>>
                         \o (IF outcome = "ok_sample" THEN <<Progress("  Sample")>> ELSE <<>>)
                         \o <<FinalEv(generated, <<"Code generated and tested">>)>>)
                 /\ pc' = "done"
                 /\ UNCHANGED last_error
            ELSE LET err == IF outcome = "not_ok" THEN <<"test failed">>
                            ELSE <<"test raised">>
                 IN  /\ last_error' = err
                     /\ Emit(<<Progress("Test failed"),
                               Ev("test_result", "", "error", err, <<>>)>>
                             \o (IF attempt = max_attempts
                                 THEN <<Ev("needs_user_input", "", "", err, generated),
                                        FinalEv(generated, <<"Code generated but not working yet.">>)>>
                                 ELSE <<>>))
                     /\ pc' = IF attempt = max_attempts THEN "done" ELSE "attempt"
    /\ UNCHANGED <<gw_vars, request_vars, last_reply, replies, messages, tool_iteration, attempt,
                   any_tools_called, query_created, accumulated_text, continuation_count,
                   generated, last_tool_results, pending, calls, loop_start, nudges>>

QueryNext ==
    QueryStart \/ QueryAttempt \/ QueryHead \/ QueryReply \/ QueryToolReturn \/ QueryTest

ToolLoopNext == ToolLoopStart \/ ToolLoopHead \/ ToolLoopReply \/ ToolLoopToolReturn

(***************************************************************************)
(* The gateway: llm.py.  Time is counted in seconds; the clock of the      *)
(* model advances by half a cache lifetime at a time.                      *)
(***************************************************************************)
CACHE_TTL == 3600

Providers == <<"gemini", "anthropic", "openai", "deepseek">>
NO_TOOLS == {"deepseek-reasoner", "o1-mini", "o1-preview"}

\* the model ids a caller may pass
ModelIds ==
    {"gemini-2.0-flash", "claude-3-haiku", "gpt-4o", "o1-mini", "o3", "deepseek-reasoner",
     "mistral-7b"}

\* _infer_provider: "" stands for None; "o3" has none of the prefixes "gpt-",
\* "o1-", "o3-", "o4-"
infer_provider(model) ==
    CASE model \in {"gemini-2.0-flash"} -> "gemini"
      [] model \in {"claude-3-haiku"} -> "anthropic"
      [] model \in {"gpt-4o", "o1-mini", "o1-preview"} -> "openai"
      [] model \in {"deepseek-reasoner"} -> "deepseek"
      [] OTHER -> ""

ModelInfo(id, provider, supports_tools) ==
    [id |-> id, provider |-> provider, supports_tools |-> supports_tools]

\* what a vendor's model listing contains once the fetcher has filtered it
Listing(provider) ==
    CASE provider = "gemini" -> <<ModelInfo("gemini-2.0-flash", "gemini", TRUE)>>
      [] provider = "anthropic" -> <<ModelInfo("claude-3-haiku", "anthropic", TRUE)>>
      [] provider = "openai" ->
             <<ModelInfo("gpt-4o", "openai", "gpt-4o" \notin NO_TOOLS),
               ModelInfo("o1-mini", "openai", "o1-mini" \notin NO_TOOLS),
               ModelInfo("o3", "openai", "o3" \notin NO_TOOLS)>>
      [] provider = "deepseek" ->
             <<ModelInfo("deepseek-reasoner", "deepseek", "deepseek-reasoner" \notin NO_TOOLS)>>

\* two of the declarations of ai_tools.py; a JSON schema is reduced to its
\* type, the names of its properties and its required list
TOOL_LIST_DATASTORES ==
    [name |-> "list_datastores",
     description |-> "Get a list of available datastores",
     parameters |-> [type |-> "object", properties |-> {}]]
TOOL_GET_DATASTORE_SCHEMA ==
    [name |-> "get_datastore_schema",
     description |-> "Get schema information for a datastore",
     parameters |-> [type |-> "object",
                     properties |-> {"datastore_id", "dataset", "table"},
                     required |-> <<"datastore_id">>]]

\* _wrap_tools: declarations wrapped in one Gemini-format group
wrap_tools(tool_list) == <<[function_declarations |-> tool_list]>>

\* the tools argument of call_llm: None, or a list of groups of declarations
NoTools == [is_none |-> TRUE, groups |-> <<>>]
ToolsArgs ==
    {NoTools,
     [is_none |-> FALSE, groups |-> <<>>],
     [is_none |-> FALSE, groups |-> wrap_tools(<<>>)],
     [is_none |-> FALSE,
      groups |-> wrap_tools(<<TOOL_LIST_DATASTORES, TOOL_GET_DATASTORE_SCHEMA>>)],
     [is_none |-> FALSE,
      groups |-> wrap_tools(<<TOOL_GET_DATASTORE_SCHEMA>>)
                 \o wrap_tools(<<TOOL_LIST_DATASTORES>>)]}

\* Python truth of a tools list
Truthy(tools) == ~tools.is_none /\ tools.groups # <<>>

RECURSIVE Flatten(_)
Flatten(groups) == IF groups = <<>> THEN <<>> ELSE Head(groups) \o Flatten(Tail(groups))

\* dict.get(key, default)
Get(d, key, default) == IF key \in DOMAIN d THEN d[key] ELSE default

\* for tool_group in gemini_tools: for decl in tool_group.get("function_declarations", [])
Declarations(gemini_tools) ==
    Flatten([i \in 1..Len(gemini_tools) |->
                Get(gemini_tools[i], "function_declarations", <<>>)])

DefaultParameters == [type |-> "object", properties |-> {}]

\* mutant: the converted tools lose their descriptions
gemini_tools_to_openai_undescribed(gemini_tools) ==
    [i \in 1..Len(Declarations(gemini_tools)) |->
        [type |-> "function",
         function |-> [name |-> Declarations(gemini_tools)[i].name,
                       description |-> "",
                       parameters |-> Get(Declarations(gemini_tools)[i], "parameters",
                                          DefaultParameters)]]]

\* _gemini_tools_to_openai
gemini_tools_to_openai(gemini_tools) ==
    [i \in 1..Len(Declarations(gemini_tools)) |->
        [type |-> "function",
         function |-> [name |-> Declarations(gemini_tools)[i].name,
                       description |-> Get(Declarations(gemini_tools)[i], "description", ""),
                       parameters |-> Get(Declarations(gemini_tools)[i], "parameters",
                                          DefaultParameters)]]]

\* _gemini_tools_to_anthropic
gemini_tools_to_anthropic(gemini_tools) ==
    [i \in 1..Len(Declarations(gemini_tools)) |->
        [name |-> Declarations(gemini_tools)[i].name,
         description |-> Get(Declarations(gemini_tools)[i], "description", ""),
         input_schema |-> Get(Declarations(gemini_tools)[i], "parameters",
                              DefaultParameters)]]

\* mutant: one provider without a key or with a failing listing empties the
\* whole discovery
DiscoverAllOrNothing(ps, answers) ==
    [requests |-> [i \in 1..Len(SelectSeq(ps, LAMBDA p : p \in keys)) |->
                      [kind |-> "models",
                       provider |-> SelectSeq(ps, LAMBDA p : p \in keys)[i],
                       ok |-> answers[SelectSeq(ps, LAMBDA p : p \in keys)[i]]]],
     models |-> IF \E i \in 1..Len(ps) : ps[i] \notin keys \/ ~answers[ps[i]]
                THEN <<>>
                ELSE Flatten([i \in 1..Len(ps) |-> Listing(ps[i])])]

\* the requests of one discovery and the models it finds; answers[p] is
\* whether provider p's listing request succeeds
RECURSIVE Discover(_, _)
Discover(ps, answers) ==
    IF ps = <<>> THEN [requests |-> <<>>, models |-> <<>>]
    ELSE LET p == Head(ps)
             rest == Discover(Tail(ps), answers)
         IN  IF p \notin keys THEN rest
             ELSE [requests |-> <<[kind |-> "models", provider |-> p, ok |-> answers[p]]>>
                                  \o rest.requests,
                   models |-> (IF answers[p] THEN Listing(p) ELSE <<>>) \o rest.models]

\* mutant: the cache is never consulted
get_available_models_uncached(answers) ==
    [requests |-> Discover(Providers, answers).requests,
     models |-> Discover(Providers, answers).models,
     cache |-> IF Discover(Providers, answers).models # <<>>
               THEN [models |-> Discover(Providers, answers).models, fetched_at |-> now]
               ELSE model_cache]

\* mutant: a discovery that finds nothing empties the cache
get_available_models_overwriting(answers) ==
    IF model_cache.models # <<>> /\ (now - model_cache.fetched_at) < CACHE_TTL
    THEN [requests |-> <<>>, models |-> model_cache.models, cache |-> model_cache]
    ELSE [requests |-> Discover(Providers, answers).requests,
          models |-> Discover(Providers, answers).models,
          cache |-> [models |-> Discover(Providers, answers).models, fetched_at |-> now]]

\* get_available_models(): [requests, models, cache]
get_available_models(answers) ==
    IF model_cache.models # <<>> /\ (now - model_cache.fetched_at) < CACHE_TTL
    THEN [requests |-> <<>>, models |-> model_cache.models, cache |-> model_cache]
    ELSE LET d == Discover(Providers, answers)
         IN  [requests |-> d.requests, models |-> d.models,
              cache |-> IF d.models # <<>>
                        THEN [models |-> d.models, fetched_at |-> now]
                        ELSE model_cache]

NoInfo == ModelInfo("", "", TRUE)

\* get_model_info(model) over the models get_available_models returned;
\* NoInfo stands for "raise ValueError"
get_model_info(model, models) ==
    IF \E i \in 1..Len(models) : models[i].id = model
    THEN models[CHOOSE i \in 1..Len(models) :
                    models[i].id = model /\ \A k \in 1..(i - 1) : models[k].id # model]
    ELSE IF infer_provider(model) # ""
    THEN ModelInfo(model, infer_provider(model), model \notin NO_TOOLS)
    ELSE NoInfo

\* the request body an adapter builds, reduced to its tools field
Body(has_tools, tools) == [has_tools |-> has_tools, tools |-> tools]

\* _call_gemini: if tools: payload["tools"] = tools
gemini_body(model, tools) ==
    IF Truthy(tools) THEN Body(TRUE, tools.groups) ELSE Body(FALSE, <<>>)

\* _call_anthropic: anth_tools = convert(tools) if tools else None; if anth_tools: ...
anthropic_body(model, tools) ==
    IF Truthy(tools) /\ gemini_tools_to_anthropic(tools.groups) # <<>>
    THEN Body(TRUE, gemini_tools_to_anthropic(tools.groups)) ELSE Body(FALSE, <<>>)

\* _call_openai_compat: if oai_tools: if model not in _NO_TOOLS: body["tools"] = oai_tools
openai_body(model, tools) ==
    IF Truthy(tools) /\ gemini_tools_to_openai(tools.groups) # <<>> /\ model \notin NO_TOOLS
    THEN Body(TRUE, gemini_tools_to_openai(tools.groups)) ELSE Body(FALSE, <<>>)

\* call_llm: "if not info.get('supports_tools', True): tools = None"
StripTools(info, tools) == IF ~info.supports_tools THEN NoTools ELSE tools

\* mutant: the caller's tools go into the body whatever the model supports
AdapterBodyKeepsTools(info, model, tools) ==
    IF Truthy(tools) /\ Declarations(tools.groups) # <<>>
    THEN Body(TRUE, Declarations(tools.groups)) ELSE Body(FALSE, <<>>)

\* call_llm after get_model_info: the provider's adapter builds the body
AdapterBody(info, model, tools) ==
    CASE info.provider = "gemini" -> gemini_body(model, StripTools(info, tools))
      [] info.provider = "anthropic" -> anthropic_body(model, StripTools(info, tools))
      [] OTHER -> openai_body(model, StripTools(info, tools))

Idle == [made |-> FALSE, model |-> "", tools |-> NoTools, info |-> NoInfo,
         requests |-> <<>>, models |-> <<>>, body |-> Body(FALSE, <<>>), outcome |-> ""]

Answers == [keys -> BOOLEAN]

\* call_llm(model, messages, system_instruction, tools, ...)
CallLLM ==
    /\ ops < MaxOps
    /\ \E model \in ModelIds, tools \in ToolsArgs, answers \in Answers :
       \E got \in {get_available_models(answers)} :
       \E info \in {get_model_info(model, got.models)} :
       \E sent \in {info # NoInfo /\ info.provider \in keys} :
       \E http_ok \in (IF sent THEN BOOLEAN ELSE {TRUE}) :
         /\ (got.requests = <<>> => \A p \in DOMAIN answers : answers[p])
         /\ model_cache' = got.cache
         /\ last_call' =
                [made |-> TRUE, model |-> model, tools |-> tools, info |-> info,
                 models |-> got.models,
                 requests |-> got.requests
                              \o (IF sent
                                  THEN <<[kind |-> "chat", provider |-> info.provider,
                                          ok |-> http_ok]>>
                                  ELSE <<>>),
                 body |-> IF sent THEN AdapterBody(info, model, tools)
                          ELSE Body(FALSE, <<>>),
                 outcome |-> IF info = NoInfo THEN "unknown_model"
                             ELSE IF ~sent THEN "config_error"
                             ELSE IF http_ok THEN "ok" ELSE "upstream_error"]
    /\ ops' = ops + 1
    /\ UNCHANGED <<keys, now, wire, suspended, run_vars>>

\* GET /models: list_models() returns get_available_models()
ListModels ==
    /\ ops < MaxOps
    /\ \E answers \in Answers :
       \E got \in {get_available_models(answers)} :
         /\ (got.requests = <<>> => \A p \in DOMAIN answers : answers[p])
         /\ model_cache' = got.cache
         /\ last_call' = [Idle EXCEPT !.requests = got.requests, !.models = got.models]
    /\ ops' = ops + 1
    /\ UNCHANGED <<keys, now, wire, suspended, run_vars>>

\* time passes
Tick ==
    /\ now < MaxTime * (CACHE_TTL \div 2)
    /\ now' = now + (CACHE_TTL \div 2)
    /\ UNCHANGED <<keys, model_cache, last_call, ops, wire, suspended, run_vars>>


(***************************************************************************)
(* The provider adapters: each encodes the canonical transcript into the   *)
(* vendor's message format and parses the vendor's response into an        *)
(* LLMResponse.  JSON text is modelled by the value it denotes, wrapped in *)
(* [json |-> v]; a parsed value is v itself.                               *)
(***************************************************************************)
ToolNames == {"get_datastore_schema", "run_query"}
IdPool == <<"call_1", "call_2", "call_3">>
\* the ids a tool call may carry: the loops use the tool's name
CallIds(name) == {name} \cup {IdPool[i] : i \in 1..MaxIds}
ToolOutputs == {OkSuccess, ErrOnly}

ToolCall(name, id) == [name |-> name, args |-> {"arg"}, id |-> id]
CallsMsg(tcs) == Msg("assistant", <<>>, tcs, "")
ResultMsg(tc, result) ==
    [role |-> "tool", content |-> <<[json |-> result]>>, tool_calls |-> <<>>,
     tool_call_id |-> tc.id, name |-> tc.name]

\* a user turn, an assistant turn with two tool calls, the two results
Transcript(q, tc1, tc2, r1, r2) ==
    <<UserMsg(q), CallsMsg(<<tc1, tc2>>), ResultMsg(tc1, r1), ResultMsg(tc2, r2)>>
CanonicalTranscripts ==
    {Transcript(<<"PROSE">>, ToolCall(n1, i1), ToolCall(n2, i2), r1, r2) :
        n1 \in ToolNames, n2 \in ToolNames,
        i1 \in UNION {CallIds(n) : n \in ToolNames},
        i2 \in UNION {CallIds(n) : n \in ToolNames},
        r1 \in ToolOutputs, r2 \in ToolOutputs}
\* the transcripts the loops build: "id": fc.name and "tool_call_id": fc.name
LoopTranscripts ==
    {t \in CanonicalTranscripts :
        \A i \in 1..Len(t[2].tool_calls) : t[2].tool_calls[i].id = t[2].tool_calls[i].name}

Last(seq) == seq[Len(seq)]
ButLast(seq) == SubSeq(seq, 1, Len(seq) - 1)

\* _safe_json_loads on the content of a tool message
safe_json_loads(content) == content[1].json

Part(kind, name, args, text, response) ==
    [kind |-> kind, name |-> name, args |-> args, text |-> text, response |-> response]
Content(role, parts) == [role |-> role, parts |-> parts]
\* one turn of the loop of _messages_to_gemini
gemini_turn(contents, msg) ==
    IF msg.role = "tool"
    THEN LET func_resp == Part("functionResponse", msg.name, {}, <<>>,
                               <<safe_json_loads(msg.content)>>)
         IN IF contents # <<>> /\ Last(contents).role = "user"
               /\ \E i \in 1..Len(Last(contents).parts) :
                      Last(contents).parts[i].kind = "functionResponse"
            THEN Append(ButLast(contents),
                        Content("user", Append(Last(contents).parts, func_resp)))
            ELSE Append(contents, Content("user", <<func_resp>>))
    ELSE IF msg.role = "assistant" /\ msg.tool_calls # <<>>
    THEN Append(contents,
                Content("model",
                        [i \in 1..Len(msg.tool_calls) |->
                            Part("functionCall", msg.tool_calls[i].name,
                                 msg.tool_calls[i].args, <<>>, <<>>)]))
    ELSE IF msg.content # <<>>
    THEN Append(contents,
                Content(IF msg.role = "assistant" THEN "model" ELSE "user",
                        <<Part("text", "", {}, msg.content, <<>>)>>))
    ELSE contents

RECURSIVE GeminiFold(_, _)
GeminiFold(transcript, contents) ==
    IF transcript = <<>> THEN contents
    ELSE GeminiFold(Tail(transcript), gemini_turn(contents, Head(transcript)))

\* mutant: the tool results are not sent
messages_to_gemini_without_results(transcript) ==
    GeminiFold(SelectSeq(transcript, LAMBDA m : m.role # "tool"), <<>>)

messages_to_gemini(transcript) == GeminiFold(transcript, <<>>)

OaiMsg(role, content, tool_call_id, tool_calls) ==
    [role |-> role, content |-> content, tool_call_id |-> tool_call_id,
     tool_calls |-> tool_calls]
\* one message of _messages_to_openai
openai_message(msg) ==
    IF msg.role = "tool"
    THEN OaiMsg("tool", msg.content, msg.tool_call_id, <<>>)
    ELSE IF msg.role = "assistant" /\ msg.tool_calls # <<>>
    THEN OaiMsg("assistant", msg.content, "",
                [i \in 1..Len(msg.tool_calls) |->
                    [id |-> msg.tool_calls[i].id, type |-> "function",
                     name |-> msg.tool_calls[i].name,
                     arguments |-> [json |-> msg.tool_calls[i].args]]])
    ELSE OaiMsg(msg.role, msg.content, "", <<>>)

messages_to_openai(transcript, system_instruction) ==
    (IF system_instruction # <<>>
     THEN <<OaiMsg("system", system_instruction, "", <<>>)>> ELSE <<>>)
    \o [i \in 1..Len(transcript) |-> openai_message(transcript[i])]

\* an Anthropic message: content is a string (blocks = FALSE) or a list of blocks
AnthMsg(role, blocks, content) == [role |-> role, blocks |-> blocks, content |-> content]
Block(type, id, name, input, text) ==
    [type |-> type, id |-> id, name |-> name, input |-> input, text |-> text]
\* one turn of the loop of _messages_to_anthropic
anthropic_turn(anth, msg) ==
    IF msg.role = "tool"
    THEN LET tool_result_block == Block("tool_result", msg.tool_call_id, "", {}, msg.content)
         IN IF anth # <<>> /\ Last(anth).role = "user" /\ Last(anth).blocks
            THEN Append(ButLast(anth),
                        AnthMsg("user", TRUE, Append(Last(anth).content, tool_result_block)))
            ELSE Append(anth, AnthMsg("user", TRUE, <<tool_result_block>>))
    ELSE IF msg.role = "assistant" /\ msg.tool_calls # <<>>
    THEN Append(anth,
                AnthMsg("assistant", TRUE,
                        (IF msg.content # <<>>
                         THEN <<Block("text", "", "", {}, msg.content)>> ELSE <<>>)
                        \o [i \in 1..Len(msg.tool_calls) |->
                               Block("tool_use", msg.tool_calls[i].id, msg.tool_calls[i].name,
                                     msg.tool_calls[i].args, <<>>)]))
    ELSE IF msg.role = "assistant"
    THEN Append(anth, AnthMsg("assistant", FALSE, msg.content))
    ELSE Append(anth, AnthMsg("user", FALSE, msg.content))

RECURSIVE AnthropicFold(_, _)
AnthropicFold(transcript, anth) ==
    IF transcript = <<>> THEN anth
    ELSE AnthropicFold(Tail(transcript), anthropic_turn(anth, Head(transcript)))

\* mutant: every tool result becomes a user turn of its own
messages_to_anthropic_unmerged(transcript) ==
    [i \in 1..Len(transcript) |-> Last(anthropic_turn(<<>>, transcript[i]))]

messages_to_anthropic(transcript) == AnthropicFold(transcript, <<>>)

\* a vendor's answer to a chat request: candidates is "one", "absent" (no
\* candidates key, as when the prompt itself was blocked) or "empty" (an empty list)
Vendor(candidates, prompt_blocked, signal, text, function_calls) ==
    [candidates |-> candidates, prompt_blocked |-> prompt_blocked, signal |-> signal,
     text |-> text, function_calls |-> function_calls]
FunctionCall(name) == [name |-> name, args |-> {"arg"}]
VendorTexts(signals) == {Vendor("one", FALSE, sig, <<"PROSE">>, <<>>) : sig \in signals}
VendorResponses(provider) ==
    CASE provider = "gemini" ->
            VendorTexts({"STOP", "MAX_TOKENS", "RECITATION", "OTHER"})
            \cup {Vendor("one", FALSE, "SAFETY", <<>>, <<>>),
                  Vendor("one", FALSE, "STOP", <<>>, <<FunctionCall("run_query")>>),
                  Vendor("absent", TRUE, "", <<>>, <<>>),
                  Vendor("empty", TRUE, "", <<>>, <<>>)}
      [] provider = "anthropic" ->
            VendorTexts({"end_turn", "max_tokens"})
            \cup {Vendor("one", FALSE, "refusal", <<>>, <<>>),
                  Vendor("one", FALSE, "tool_use", <<>>, <<FunctionCall("run_query")>>)}
      [] OTHER ->
            VendorTexts({"stop", "length"})
            \cup {Vendor("one", FALSE, "content_filter", <<>>, <<>>),
                  Vendor("one", FALSE, "tool_calls", <<>>, <<FunctionCall("run_query")>>)}

\* _call_gemini from data = resp.json(): candidates[0] of an empty list raises
gemini_response(v) ==
    IF v.candidates = "empty" THEN Raised
    ELSE IF v.candidates = "absent" THEN Response(<<>>, <<>>, "")
    ELSE Response(v.text, v.function_calls, v.signal)

\* _call_anthropic: "Map Anthropic stop reason to a generic finish reason"
anthropic_response(v) ==
    Response(v.text, v.function_calls,
             IF v.signal = "tool_use" THEN "TOOL_CALLS"
             ELSE IF v.signal = "max_tokens" THEN "MAX_TOKENS" ELSE "STOP")

\* _call_openai_compat
openai_response(v) ==
    Response(v.text, v.function_calls,
             IF v.signal = "tool_calls" THEN "TOOL_CALLS"
             ELSE IF v.signal = "length" THEN "MAX_TOKENS" ELSE "STOP")

Wire(provider, msgs, system_instruction, contents, vendor, resp) ==
    [made |-> TRUE, provider |-> provider, messages |-> msgs,
     system_instruction |-> system_instruction, contents |-> contents,
     vendor |-> vendor, resp |-> resp]
NoWire ==
    [made |-> FALSE, provider |-> "", messages |-> <<>>, system_instruction |-> <<>>,
     contents |-> <<>>, vendor |-> Vendor("one", FALSE, "", <<>>, <<>>), resp |-> Raised]

\* one adapter call is followed: the adapters keep no state between calls
CallGemini ==
    /\ ~wire.made
    /\ \E msgs \in CanonicalTranscripts, v \in VendorResponses("gemini") :
         wire' = Wire("gemini", msgs, <<>>, messages_to_gemini(msgs), v, gemini_response(v))
    /\ UNCHANGED <<keys, model_cache, now, last_call, ops, suspended, run_vars>>

CallAnthropic ==
    /\ ~wire.made
    /\ \E msgs \in CanonicalTranscripts, v \in VendorResponses("anthropic") :
         wire' = Wire("anthropic", msgs, <<>>, messages_to_anthropic(msgs), v,
                      anthropic_response(v))
    /\ UNCHANGED <<keys, model_cache, now, last_call, ops, suspended, run_vars>>

CallOpenAICompat ==
    /\ ~wire.made
    /\ \E msgs \in CanonicalTranscripts, v \in VendorResponses("openai"),
          system_instruction \in {<<>>, <<"SYSTEM">>} :
         wire' = Wire("openai", msgs, system_instruction,
                      messages_to_openai(msgs, system_instruction), v, openai_response(v))
    /\ UNCHANGED <<keys, model_cache, now, last_call, ops, suspended, run_vars>>


(***************************************************************************)
(* Two concurrent streaming runs.  The variables of the run section are    *)
(* the locals of the generator that is executing; suspended holds the      *)
(* locals of the other generator.  The event loop switches between the two *)
(* where a generator awaits call_llm or _execute_tool or yields an event.  *)
(***************************************************************************)
\* the locals of the executing generator
Frame ==
    [ctx |-> ctx,
     max_tool_iterations |-> max_tool_iterations,
     has_code |-> has_code,
     query_id |-> query_id,
     datastore_id |-> datastore_id,
     board_row |-> board_row,
     pc |-> pc,
     messages |-> messages,
     events |-> events,
     tool_iteration |-> tool_iteration,
     attempt |-> attempt,
     any_tools_called |-> any_tools_called,
     query_created |-> query_created,
     accumulated_text |-> accumulated_text,
     continuation_count |-> continuation_count,
     generated |-> generated,
     last_tool_results |-> last_tool_results,
     pending |-> pending,
     last_error |-> last_error,
     choices |-> choices,
     last_reply |-> last_reply,
     last_test |-> last_test,
     calls |-> calls,
     replies |-> replies,
     loop_start |-> loop_start,
     nudges |-> nudges]

\* the locals of a tool-loop generator that has not run yet
FreshFrame(c, budget) ==
    [ctx |-> c, max_tool_iterations |-> budget, has_code |-> FALSE, query_id |-> FALSE,
     datastore_id |-> FALSE, board_row |-> TRUE, pc |-> "start", messages |-> <<>>,
     events |-> <<>>, tool_iteration |-> 0, attempt |-> 0, any_tools_called |-> FALSE,
     query_created |-> FALSE, accumulated_text |-> <<>>, continuation_count |-> 0,
     generated |-> <<>>, last_tool_results |-> <<>>, pending |-> <<>>, last_error |-> <<>>,
     choices |-> MaxChoices, last_reply |-> Raised, last_test |-> "none", calls |-> 0,
     replies |-> <<>>, loop_start |-> 0, nudges |-> 0]
\* there is no second run
NoFrame == [FreshFrame("general", 0) EXCEPT !.pc = "idle"]
NoSuspended == suspended = NoFrame

\* mutant: the two runs append to one transcript
ResumeSharedMessages(frame) == messages

\* messages is a local of the generator: resuming it finds its own list
ResumeMessages(frame) == frame.messages

\* the event loop suspends the executing generator and resumes the other
Switch ==
    /\ suspended.pc \notin {"idle", "done"}
    /\ suspended' = Frame
    /\ messages' = ResumeMessages(suspended)
    /\ ctx' = suspended.ctx
    /\ max_tool_iterations' = suspended.max_tool_iterations
    /\ has_code' = suspended.has_code
    /\ query_id' = suspended.query_id
    /\ datastore_id' = suspended.datastore_id
    /\ board_row' = suspended.board_row
    /\ pc' = suspended.pc
    /\ events' = suspended.events
    /\ tool_iteration' = suspended.tool_iteration
    /\ attempt' = suspended.attempt
    /\ any_tools_called' = suspended.any_tools_called
    /\ query_created' = suspended.query_created
    /\ accumulated_text' = suspended.accumulated_text
    /\ continuation_count' = suspended.continuation_count
    /\ generated' = suspended.generated
    /\ last_tool_results' = suspended.last_tool_results
    /\ pending' = suspended.pending
    /\ last_error' = suspended.last_error
    /\ choices' = suspended.choices
    /\ last_reply' = suspended.last_reply
    /\ last_test' = suspended.last_test
    /\ calls' = suspended.calls
    /\ replies' = suspended.replies
    /\ loop_start' = suspended.loop_start
    /\ nudges' = suspended.nudges
    /\ UNCHANGED <<keys, model_cache, now, last_call, ops, wire, stored_code>>

GatewayIdle ==
    /\ keys = {}
    /\ model_cache = [models |-> <<>>, fetched_at |-> 0]
    /\ now = 0
    /\ last_call = Idle
    /\ ops = 0
    /\ wire = NoWire

GatewayInit ==
    /\ keys \in {ks \in SUBSET {Providers[i] : i \in 1..Len(Providers)} :
                     Cardinality(ks) <= MaxKeys}
    /\ model_cache = [models |-> <<>>, fetched_at |-> 0]
    /\ now = 0
    /\ last_call = Idle
    /\ ops = 0
    /\ wire = NoWire

\* no run is in progress
RunIdle ==
    /\ ctx = "general"
    /\ max_tool_iterations = 0
    /\ has_code = FALSE
    /\ query_id = FALSE
    /\ datastore_id = FALSE
    /\ board_row = TRUE
    /\ pc = "idle"
    /\ messages = <<>>
    /\ events = <<>>
    /\ tool_iteration = 0
    /\ attempt = 0
    /\ any_tools_called = FALSE
    /\ query_created = FALSE
    /\ accumulated_text = <<>>
    /\ continuation_count = 0
    /\ generated = <<>>
    /\ last_tool_results = <<>>
    /\ pending = <<>>
    /\ last_error = <<>>
    /\ choices = 0
    /\ last_reply = Raised
    /\ last_test = "none"
    /\ calls = 0
    /\ replies = <<>>
    /\ loop_start = 0
    /\ nudges = 0
    /\ stored_code = <<>>

(***************************************************************************)
(* Specifications: Spec is one streaming run; GatewaySpec is the gateway   *)
(* under a sequence of calls while time passes.                            *)
(***************************************************************************)
Init == RunInit /\ GatewayIdle /\ NoSuspended
Next == ToolLoopNext \/ BoardNext \/ QueryNext
Spec == Init /\ [][Next]_vars

\* the generator is driven to its end: the ASGI server keeps iterating the
\* stream, and call_llm, _execute_tool and the test each return or raise
LiveSpec == Init /\ [][Next]_vars /\ WF_vars(Next)

GatewayNext == CallLLM \/ ListModels \/ Tick
GatewayStart == RunIdle /\ GatewayInit /\ NoSuspended
GatewaySpec == GatewayStart /\ [][GatewayNext]_vars

AdapterNext == CallGemini \/ CallAnthropic \/ CallOpenAICompat
AdapterStart == RunIdle /\ GatewayIdle /\ NoSuspended
AdapterSpec == AdapterStart /\ [][AdapterNext]_vars

\* two runs of the tool loop: a general chat and a datastore chat
TwoRunNext == ToolLoopNext \/ Switch
TwoRunStart ==
    /\ RunInit /\ ctx = "general" /\ max_tool_iterations = MaxIter
    /\ GatewayIdle
    /\ suspended = FreshFrame("datastore", 1)
TwoRunSpec == TwoRunStart /\ [][TwoRunNext]_vars

(***************************************************************************)
(* Properties.                                                             *)
(***************************************************************************)
IsTerminal(e) == e.type \in {"final", "error"}
LastEvent == events[Len(events)]
\* the events emitted since the loop was entered
LoopEvents == SubSeq(events, loop_start + 1, Len(events))
IsToolTurn(r) == ~r.raised /\ ~IsBlocked(r) /\ r.function_calls # <<>>
IsEmptyReply(r) ==
    ~r.raised /\ ~IsBlocked(r) /\ r.function_calls = <<>> /\ r.text = <<>>
    /\ r.finish_reason # "MAX_TOKENS"

\* C1: every run's event stream ends with exactly one terminal event, of
\* type final or error, and no event follows a terminal event.
C1_StreamEndsWithTerminal ==
    /\ pc = "done" => events # <<>> /\ IsTerminal(LastEvent)
    /\ \A i \in 1..(Len(events) - 1) : ~IsTerminal(events[i])

\* C2: with a budget N >= 1 and a model that asks for a tool on every reply,
\* a run makes at most N gateway calls and then ends with an error event, in
\* every context.
C2_BudgetBoundsCalls ==
    (max_tool_iterations >= 1 /\ \A i \in 1..Len(replies) : IsToolTurn(replies[i]))
        => /\ calls <= max_tool_iterations
           /\ pc = "done" => LastEvent.type = "error"

\* C3: when the first two replies of a run are both empty, the loop appends
\* exactly one nudge and ends with an error event after exactly two calls.
C3_SecondEmptyReplyIsError ==
    (Len(replies) >= 2 /\ IsEmptyReply(replies[1]) /\ IsEmptyReply(replies[2]))
        => /\ nudges = 1
           /\ calls = 2
           /\ pc = "done"
           /\ LastEvent.type = "error"

\* C4: when the first reply of a run is blocked, the loop emits exactly one
\* event, an error naming the block, and the gateway is never called again,
\* the attempts of the query context included.
C4_BlockedEndsRun ==
    (Len(replies) >= 1 /\ IsBlocked(replies[1]))
        => /\ LoopEvents = <<ErrorEv(BlockedContent(replies[1].finish_reason))>>
           /\ calls = 1
           /\ pc = "done"

\* C5: when a gateway call of a run fails, the run emits an error event as
\* its last event and calls the gateway no more, in every loop.
C5_GatewayFailureEndsRun ==
    \A i \in 1..Len(replies) :
        replies[i].raised
            => /\ i = Len(replies)
               /\ calls = i
               /\ pc = "done"
               /\ LastEvent.type = "error"

RECURSIVE ConcatTexts(_)
ConcatTexts(rs) == IF rs = <<>> THEN <<>> ELSE Head(rs).text \o ConcatTexts(Tail(rs))

IsTextReply(r) == ~r.raised /\ ~IsBlocked(r) /\ r.function_calls = <<>>
IsFragment(r) == IsTextReply(r) /\ r.finish_reason = "MAX_TOKENS"
\* the replies of the run are truncated fragments followed by one complete text
FragmentsThenText ==
    /\ Len(replies) >= 2
    /\ \A i \in 1..(Len(replies) - 1) : IsFragment(replies[i])
    /\ IsTextReply(replies[Len(replies)]) /\ ~IsFragment(replies[Len(replies)])
\* the run is over and its last event is the final artifact
EndedWithFinal == pc = "done" /\ events # <<>> /\ LastEvent.type = "final"
\* the text of the final artifact: the code of a board or query run, the
\* message of a datastore or general run
ArtifactText == IF ctx \in ToolLoopContexts THEN LastEvent.content ELSE LastEvent.code

\* C6 (as stated): when a reply truncated at MAX_TOKENS with text A is
\* followed by a complete reply with text B, the final artifact's text is
\* exactly A followed by B.
C6_ArtifactIsConcatenation ==
    (FragmentsThenText /\ EndedWithFinal) => ArtifactText = ConcatTexts(replies)

\* C6 (amended): when the replies of a run are truncated fragments followed
\* by a complete text reply, all within one generation attempt, and the run
\* ends with a final event, the final
\* artifact's text is the fragments and the last text joined in call order,
\* then trimmed of surrounding whitespace, and in the board and query
\* contexts reduced to the code block extracted from it; a datastore or
\* general run whose joined text is empty answers "No response generated.".
C6_ArtifactIsTrimmedConcatenation ==
    (FragmentsThenText /\ EndedWithFinal /\ attempt <= 1)
        => ArtifactText =
               IF ctx \in ToolLoopContexts
               THEN IF ConcatTexts(replies) = <<>> THEN <<"No response generated.">>
                    ELSE Strip(ConcatTexts(replies))
               ELSE strip_markdown_code_block(Strip(ConcatTexts(replies)))

\* C6 witness: a run ended with a final artifact built from a truncated
\* fragment and a complete text, both non-empty
C6_Witness ==
    /\ FragmentsThenText /\ EndedWithFinal /\ attempt <= 1
    /\ \A i \in 1..Len(replies) : replies[i].text # <<>>
    /\ ArtifactText # <<>>

\* the tool messages of the transcript that answer a call the dispatcher
\* does not know
IsUnknownToolMsg(m) ==
    m.role = "tool" /\ m.name \notin HandledTools /\ m.content = <<UnknownFunction(m.name)>>

\* C7: a call of a tool name the dispatcher does not know yields the result
\* {"error": "Unknown function: <name>"}; the loop emits a tool_result event
\* of status error for it, appends the result to the transcript as a tool
\* message and goes on to the next gateway call instead of ending the run.
C7_UnknownToolIsAnErrorResult ==
    [][/\ (pc = "tool" /\ Head(pending).name \notin HandledTools)
          => /\ execute_tool(Head(pending).name, Head(pending).args, Head(pending).out)
                    = UnknownFunction(Head(pending).name)
             /\ Len(events') > Len(events)
             /\ events'[Len(events) + 1] =
                    Ev("tool_result", Head(pending).name, "error",
                       <<"Unknown function: ", Head(pending).name>>, <<>>)
             /\ Len(messages') > Len(messages)
             /\ messages'[Len(messages) + 1] =
                    ToolMsg(Head(pending), UnknownFunction(Head(pending).name))
             /\ pc' \in {"tool", "call"}
             /\ \A i \in (Len(events) + 1)..Len(events') : ~IsTerminal(events'[i])
       /\ (/\ pc = "call"
           /\ BudgetLeft(tool_iteration, max_tool_iterations)
           /\ \E i \in 1..Len(messages) : IsUnknownToolMsg(messages[i]))
          => pc' = "llm" /\ calls' = calls + 1]_vars

\* C7 witness: the transcript holds the error result of an unknown tool and
\* the gateway has been called again after it
C7_Witness ==
    /\ \E i \in 1..Len(messages) : IsUnknownToolMsg(messages[i])
    /\ \E i \in 1..Len(events) :
           events[i].type = "tool_result" /\ events[i].status = "error"
           /\ events[i].tool \notin HandledTools
    /\ Len(replies) >= 2
    /\ IsToolTurn(replies[1])
    /\ \E k \in 1..Len(replies[1].function_calls) :
           replies[1].function_calls[k].name \notin HandledTools

\* the first reply asks for get_datastore_schema alone and the tool succeeds;
\* the second reply is a complete, non-empty text
SchemaThenText ==
    /\ Len(replies) >= 2
    /\ IsToolTurn(replies[1])
    /\ Len(replies[1].function_calls) = 1
    /\ replies[1].function_calls[1].name = "get_datastore_schema"
    /\ replies[1].function_calls[1].out = OkSuccess
    /\ IsTextReply(replies[2]) /\ ~IsFragment(replies[2]) /\ replies[2].text # <<>>

SchemaEvents ==
    <<Ev("tool_call", "get_datastore_schema", "started", <<>>, <<>>),
      Ev("tool_result", "get_datastore_schema", "success", <<>>, <<>>)>>

\* an event without its payload
Kind(e) == [type |-> e.type, tool |-> e.tool, status |-> e.status]
Kinds(evs) == [i \in 1..Len(evs) |-> Kind(evs[i])]
IsProtocolEvent(e) == e.type \in {"tool_call", "tool_result", "final", "error"}
IsCommentary(e) == e.type \in {"thinking", "progress", "code_delta", "test_result"}

\* C9 (as stated): when the model first calls get_datastore_schema, the tool
\* succeeds, and the model then answers with text, the loop emits exactly
\* tool_call, tool_result(success), final and no other event.
C9_ExactlyThreeEvents ==
    (SchemaThenText /\ Len(replies) = 2 /\ pc = "done")
        => Kinds(LoopEvents) = Kinds(SchemaEvents \o <<FinalEv(<<>>, <<>>)>>)

\* C9 (amended): in the datastore and general contexts the loop emits
\* exactly tool_call(get_datastore_schema, started),
\* tool_result(get_datastore_schema, success) and final, the final carrying
\* the trimmed text; in the board and query contexts a run that ends with a
\* final event after these two replies emits the same three events in that
\* order, and around them only thinking, progress, code_delta and
\* test_result events.
C9_ThreeProtocolEvents ==
    SchemaThenText
        => IF ctx \in ToolLoopContexts
           THEN /\ pc = "done"
                /\ LoopEvents = SchemaEvents \o <<FinalEv(<<>>, Strip(replies[2].text))>>
           ELSE (Len(replies) = 2 /\ EndedWithFinal)
                    => /\ Kinds(SelectSeq(LoopEvents, IsProtocolEvent))
                              = Kinds(SchemaEvents \o <<FinalEv(<<>>, <<>>)>>)
                       /\ \A i \in 1..Len(LoopEvents) :
                              IsProtocolEvent(LoopEvents[i]) \/ IsCommentary(LoopEvents[i])

\* C9 witness: a datastore or general run went through the tool call and
\* ended on the text reply
C9_Witness ==
    /\ SchemaThenText
    /\ ctx \in ToolLoopContexts
    /\ pc = "done"
    /\ Len(LoopEvents) = 3

\* the last call_llm reached its provider's endpoint
Reached == last_call.made /\ last_call.outcome \in {"ok", "upstream_error"}
IsChat(r) == r.kind = "chat"
IsListing(r) == r.kind = "models"

\* C8: when supports_tools is false for the resolved model, the body of the
\* outbound request has no tools field, whatever tools the caller passed,
\* for every provider's adapter.
C8_NoToolsFieldWithoutSupport ==
    (last_call.made /\ ~last_call.info.supports_tools) => ~last_call.body.has_tools

\* C8 witness: a caller passed tool declarations for a model without tool
\* support, the request went out and its body has no tools field
C8_Witness ==
    /\ Reached
    /\ ~last_call.info.supports_tools
    /\ Truthy(last_call.tools) /\ Declarations(last_call.tools.groups) # <<>>
    /\ ~last_call.body.has_tools

\* C10 (as stated): an invocation of call_llm that reaches its provider
\* issues exactly one outbound HTTP request: no discovery or catalog request,
\* no retry.
C10_ExactlyOneRequest ==
    Reached => Len(last_call.requests) = 1

\* C10 (amended): an invocation of call_llm issues exactly one chat request,
\* as its last request and to the resolved provider, when the model resolves
\* to a provider whose credential is configured, and no chat request
\* otherwise; when the model cache is empty or older than the cache lifetime
\* it first issues one model-listing request to each provider whose
\* credential is configured, and when the cache is fresh it issues none.
C10_OneChatRequestAfterDiscovery ==
    [][(last_call'.made /\ ops' = ops + 1)
        => LET rs == last_call'.requests
               fresh == model_cache.models # <<>>
                        /\ (now - model_cache.fetched_at) < CACHE_TTL
               listings == SelectSeq(rs, IsListing)
               chats == SelectSeq(rs, IsChat)
               sent == last_call'.outcome \in {"ok", "upstream_error"}
           IN  /\ Len(chats) = IF sent THEN 1 ELSE 0
               /\ sent => /\ IsChat(rs[Len(rs)])
                          /\ rs[Len(rs)].provider = last_call'.info.provider
                          /\ last_call'.info.provider \in keys
               /\ ~sent => \/ last_call'.info = NoInfo
                           \/ last_call'.info.provider \notin keys
               /\ fresh => listings = <<>>
               /\ ~fresh => /\ {listings[i].provider : i \in 1..Len(listings)} = keys
                            /\ Len(listings) = Cardinality(keys)]_vars

\* C10 witness: a call that reached its provider after a discovery
C10_Witness ==
    /\ Reached
    /\ Len(last_call.requests) >= 2
    /\ IsListing(last_call.requests[1])
    /\ IsChat(last_call.requests[Len(last_call.requests)])

SchemaTypes ==
    {"thinking", "progress", "tool_call", "tool_result", "code_delta", "final", "error"}
StatusOk(e) ==
    /\ e.type = "tool_result" => e.status \in {"success", "error"}
    /\ e.type = "tool_call" => e.status = "started"

\* C12 (as stated): every event of every streaming loop has one of the seven
\* types thinking, progress, tool_call, tool_result, code_delta, final,
\* error; tool_result events carry status success or error and tool_call
\* events status started.
C12_SevenEventTypes ==
    \A i \in 1..Len(events) : events[i].type \in SchemaTypes /\ StatusOk(events[i])

\* C12 (amended): every event has one of the seven types of the schema or,
\* in the query context only, the type test_result or needs_user_input;
\* tool_result events carry status success or error and tool_call events
\* status started.
C12_EventTypesWithQueryExtras ==
    \A i \in 1..Len(events) :
        /\ events[i].type \in SchemaTypes
                \cup (IF ctx = "query" THEN {"test_result", "needs_user_input"} ELSE {})
        /\ StatusOk(events[i])

\* C12 witness: a finished query run that emitted tool events, a failed tool
\* result among them, and a test_result event
C12_Witness ==
    /\ ctx = "query" /\ pc = "done"
    /\ \E i \in 1..Len(events) : events[i].type = "test_result"
    /\ \E i \in 1..Len(events) : events[i].type = "tool_call"
    /\ \E i \in 1..Len(events) : events[i].type = "tool_result" /\ events[i].status = "error"

\* the result _execute_tool returns for the first pending call
PendingResult == execute_tool(Head(pending).name, Head(pending).args, Head(pending).out)
IsErrorToolMsg(m) == m.role = "tool" /\ m.content # <<>> /\ m.content[1].has_error

\* C13: a tool result that carries an error key never ends the run: the
\* step that receives it appends it to the transcript as a tool message and
\* emits no terminal event, and at the loop head, while budget remains, the
\* next step is a gateway call made on a transcript that still holds it;
\* for every tool and in every context.
C13_ToolErrorIsNotFatal ==
    [][/\ (pc = "tool" /\ PendingResult.has_error)
          => /\ Len(messages') > Len(messages)
             /\ messages'[Len(messages) + 1].role = "tool"
             /\ messages'[Len(messages) + 1].name = Head(pending).name
             /\ messages'[Len(messages) + 1].content = <<PendingResult>>
             /\ SubSeq(messages', 1, Len(messages)) = messages
             /\ pc' \in {"tool", "call"}
             /\ \A i \in (Len(events) + 1)..Len(events') : ~IsTerminal(events'[i])
       /\ (/\ pc = "call"
           /\ BudgetLeft(tool_iteration, max_tool_iterations)
           /\ \E i \in 1..Len(messages) : IsErrorToolMsg(messages[i]))
          => /\ pc' = "llm"
             /\ calls' = calls + 1
             /\ messages' = messages]_vars

\* C13 witness: a dispatched tool answered with an error and the gateway is
\* being called again with the error result in the transcript
C13_Witness ==
    /\ pc = "llm"
    /\ \E i \in 1..Len(messages) :
           IsErrorToolMsg(messages[i]) /\ messages[i].name \in HandledTools
    /\ \E i \in 1..Len(events) :
           events[i].type = "tool_result" /\ events[i].status = "error"

\* C14: for every dispatched tool with required arguments, _execute_tool
\* called with a required argument absent returns {"error": "Missing <field>"}
\* for an absent required field, without invoking the collaborator.
C14_MissingArgumentIsAnError ==
    (pc = "tool" /\ Head(pending).name \in HandledTools
     /\ Required(Head(pending).name) \ Head(pending).args # {})
        => \E field \in Required(Head(pending).name) \ Head(pending).args :
               PendingResult = Missing(field)

\* what the adapter of a provider sends for a transcript
Encoded(provider, transcript, system_instruction) ==
    CASE provider = "gemini" -> messages_to_gemini(transcript)
      [] provider = "anthropic" -> messages_to_anthropic(transcript)
      [] OTHER -> messages_to_openai(transcript, system_instruction)

\* C15 (as stated): for each provider, the vendor encoding of a canonical
\* transcript (user turn, assistant turn with two tool calls, two tool results)
\* can be decoded back to that transcript: no other canonical transcript of
\* the same shape has the same encoding.
C15_EncodingRoundTrips ==
    wire.made =>
        \A other \in CanonicalTranscripts :
            Encoded(wire.provider, other, wire.system_instruction) = wire.contents
                => other = wire.messages

\* C15 (amended): the round trip holds for the transcripts the loops build,
\* whose tool calls carry the tool's name as id.
C15_LoopTranscriptRoundTrips ==
    (wire.made /\ wire.messages \in LoopTranscripts) =>
        \A other \in LoopTranscripts :
            Encoded(wire.provider, other, wire.system_instruction) = wire.contents
                => other = wire.messages

C15_Witness ==
    /\ wire.made /\ wire.provider = "gemini"
    /\ wire.messages \in LoopTranscripts
    /\ wire.messages[2].tool_calls[1].name = wire.messages[2].tool_calls[2].name
    /\ wire.messages[3].content # wire.messages[4].content
    /\ Len(wire.contents) = 3

\* the vendor's answer means "blocked for safety or policy"
VendorBlocked(provider, v) ==
    CASE provider = "gemini" -> v.prompt_blocked \/ v.signal = "SAFETY"
      [] provider = "anthropic" -> v.signal = "refusal"
      [] OTHER -> v.signal = "content_filter"

\* C17: every vendor signal meaning "blocked" (Gemini finishReason SAFETY and
\* prompt-level blockReason, OpenAI content_filter, Anthropic refusal) reaches
\* the loops as a response on which they take their blocked branch.
C17_VendorBlockIsBlocked ==
    (wire.made /\ VendorBlocked(wire.provider, wire.vendor))
        => ~wire.resp.raised /\ IsBlocked(wire.resp)

CanonicalReasons == {"STOP", "TOOL_CALLS", "MAX_TOKENS", "BLOCKED", "OTHER"}
\* the finish reasons the loops compare resp.finish_reason with
LoopBranchReasons == BlockedReasons \cup {"MAX_TOKENS"}

\* C18: the finish_reason of every LLMResponse an adapter returns is one of
\* STOP, TOOL_CALLS, MAX_TOKENS, BLOCKED, OTHER, and the loops branch on
\* these values only.
C18_FinishReasonIsCanonical ==
    (wire.made /\ ~wire.resp.raised)
        => /\ wire.resp.finish_reason \in CanonicalReasons
           /\ LoopBranchReasons \subseteq CanonicalReasons
           /\ "BLOCKED" \in LoopBranchReasons

\* the positions of a sequence whose element is of a role, or an event of a type
RolePositions(msgs, role) == {i \in 1..Len(msgs) : msgs[i].role = role}
TypePositions(evs, type) == {i \in 1..Len(evs) : evs[i].type = type}
\* the tool turns among the replies a run received
ToolTurnPositions(rs) == {i \in 1..Len(rs) : IsToolTurn(rs[i])}
\* the results of the function calls the model made to a run
OwnToolMsgs(rs) ==
    UNION {{ToolMsg(rs[i].function_calls[j],
                    execute_tool(rs[i].function_calls[j].name, rs[i].function_calls[j].args,
                                 rs[i].function_calls[j].out)) :
               j \in 1..Len(rs[i].function_calls)} : i \in ToolTurnPositions(rs)}
\* a run's transcript and events are accounted for by its own replies
Accounted(f) ==
    /\ f.messages # <<>> => Head(f.messages) = UserRequest
    /\ Cardinality(RolePositions(f.messages, "user")) =
           (IF f.messages = <<>> THEN 0 ELSE 1) + f.nudges + f.continuation_count
    /\ Cardinality({i \in RolePositions(f.messages, "assistant") :
                        f.messages[i].tool_calls # <<>>}) =
           Cardinality(ToolTurnPositions(f.replies))
    /\ \A i \in RolePositions(f.messages, "tool") : f.messages[i] \in OwnToolMsgs(f.replies)
    /\ Cardinality(RolePositions(f.messages, "tool")) =
           Cardinality(TypePositions(f.events, "tool_result"))
    /\ Cardinality(TypePositions(f.events, "tool_call")) =
           Cardinality(TypePositions(f.events, "tool_result"))
           + (IF f.pending # <<>> THEN 1 ELSE 0)
    /\ f.calls = Len(f.replies) + (IF f.pc = "llm" THEN 1 ELSE 0)

CallTurns == {i \in 1..Len(messages) : messages[i].tool_calls # <<>>}

\* C19: a response with k >= 1 tool calls extends the transcript by one
\* assistant message carrying the k calls in the provider's order, followed
\* by k tool messages in the same order, the i-th tagged with the id and
\* name of the i-th call, with no other message in between; while results
\* are outstanding the run is dispatching exactly the calls not yet answered.
C19_ToolTurnShape ==
    /\ \A i \in CallTurns :
           /\ \A j \in 1..Len(messages[i].tool_calls) :
                  i + j <= Len(messages)
                      => /\ messages[i + j].role = "tool"
                         /\ messages[i + j].tool_call_id = messages[i].tool_calls[j].id
                         /\ messages[i + j].name = messages[i].tool_calls[j].name
           /\ i + Len(messages[i].tool_calls) > Len(messages)
                  => /\ pc = "tool"
                     /\ Len(pending) = i + Len(messages[i].tool_calls) - Len(messages)
    /\ \A p \in RolePositions(messages, "tool") :
           \E i \in CallTurns : i < p /\ p - i <= Len(messages[i].tool_calls)
    /\ pc = "tool" =>
           \E i \in CallTurns :
               /\ messages[i] = ToolCallsMsg(last_reply.function_calls)
               /\ i + Len(last_reply.function_calls) - Len(pending) = Len(messages)
    /\ pc # "tool" => \A i \in CallTurns : i + Len(messages[i].tool_calls) <= Len(messages)

C19_Witness ==
    \E i \in CallTurns :
        /\ Len(messages[i].tool_calls) = 2
        /\ messages[i].tool_calls[1].name # messages[i].tool_calls[2].name
        /\ i + 2 < Len(messages)
        /\ pc = "done"

\* the tool_call and tool_result events of the run, in order
DispatchEvents == SelectSeq(events, LAMBDA e : e.type \in {"tool_call", "tool_result"})

\* C20: tool dispatch is sequential in the provider's order: the events of
\* the calls alternate tool_call(1), tool_result(1), tool_call(2), ..., each
\* result being that of the call announced just before it, and at most one
\* call is in flight: the one announced last, first of the outstanding calls.
C20_SequentialDispatch ==
    \E d \in {DispatchEvents} :
        /\ \A i \in 1..Len(d) :
               IF i % 2 = 1 THEN d[i].type = "tool_call"
               ELSE d[i].type = "tool_result" /\ d[i].tool = d[i - 1].tool
        /\ (Len(d) % 2 = 1) <=> (pc = "tool")
        /\ pc = "tool" =>
               /\ pending # <<>>
               /\ d[Len(d)].tool = Head(pending).name
               /\ pending = SubSeq(last_reply.function_calls,
                                   Len(last_reply.function_calls) - Len(pending) + 1,
                                   Len(last_reply.function_calls))

C20_Witness ==
    /\ pc = "tool" /\ Len(pending) = 1
    /\ Len(last_reply.function_calls) = 2
    /\ \E d \in {DispatchEvents} : Len(d) >= 3 /\ d[Len(d)].tool # d[Len(d) - 1].tool

\* C21: the transcript is append-only: every step of a run leaves the
\* messages it already holds in place, unchanged and in order, and at most
\* appends messages after them.
C21_TranscriptAppendOnly ==
    [][/\ Len(messages') >= Len(messages)
       /\ SubSeq(messages', 1, Len(messages)) = messages]_vars

\* C22: an empty reply is nudged at most once in immediate succession: when
\* two consecutive replies of a run are empty, the second one ends the run
\* with an error event and is not nudged, whether or not tools were called.
C22_SecondConsecutiveEmptyReplyEndsRun ==
    \A i \in 1..(Len(replies) - 1) :
        (IsEmptyReply(replies[i]) /\ IsEmptyReply(replies[i + 1]))
            => /\ Len(replies) = i + 1
               /\ pc = "done"
               /\ LastEvent = ErrorEv(<<"Could not understand your request.">>)

\* the result of a data-query tool that stands for zero rows
IsZeroRowResult(name, result) ==
    /\ name \in {"run_query", "create_or_update_query"}
    /\ \/ result.success /\ result.row_count = 0
       \/ result.test = "zero"

\* C23: in the board and query contexts, when the last tool of a turn returns
\* and a data-query tool of the turn returned zero rows, the step appends the
\* tool message followed by one instructional user message and goes on to
\* the next gateway call.
C23_ZeroRowsAreDiagnosed ==
    [][(/\ pc = "tool" /\ ctx \in {"board", "query"}
        /\ Len(pending) = 1
        /\ IsZeroRowResult(Head(pending).name, PendingResult))
           => /\ messages' = messages \o <<ToolMsg(Head(pending), PendingResult),
                                            UserMsg(<<"WARNING: The query returned 0 rows.">>)>>
              /\ pc' = "call"]_vars

\* C24: when the loop finds its iteration budget spent while it holds text
\* accumulated from truncated replies, the run ends with a final event that
\* carries an artifact: the accumulated text is not discarded.
C24_ExhaustionReportsPartialArtifact ==
    [][(/\ pc = "call" /\ max_tool_iterations >= 1
        /\ ~BudgetLeft(tool_iteration, max_tool_iterations)
        /\ Strip(accumulated_text) # <<>>)
           => /\ events'[Len(events')].type = "final"
              /\ events'[Len(events')].content \o events'[Len(events')].code # <<>>
              /\ \E i \in 1..Len(accumulated_text) :
                     \E j \in 1..Len(events'[Len(events')].content
                                     \o events'[Len(events')].code) :
                         (events'[Len(events')].content
                          \o events'[Len(events')].code)[j] = accumulated_text[i]]_vars

\* a user turn of a given content
IsUserTurn(m, content) == m.role = "user" /\ m.content = content

\* the step receives a complete, non-empty text reply in the board loop whose
\* text, joined to the accumulated text, is not HTML-like
BoardProseReply ==
    /\ pc = "llm" /\ ctx = "board"
    /\ IsTextReply(last_reply') /\ ~IsFragment(last_reply')
    /\ WithPrefix(accumulated_text, last_reply'.text) # <<>>
    /\ ~LooksLikeHtml(strip_markdown_code_block(
                          Strip(WithPrefix(accumulated_text, last_reply'.text))))
\* the step appends the text and the corrective instruction and goes on
CorrectiveRetry ==
    /\ messages' = messages
                   \o <<AssistantMsg(WithPrefix(accumulated_text, last_reply'.text)),
                        UserMsg(<<"Output ONLY the complete HTML code">>)>>
    /\ pc' = "call"
    /\ \A i \in (Len(events) + 1)..Len(events') : ~IsTerminal(events'[i])

\* C25 (as stated): in the board loop a text reply that is not HTML-like,
\* with budget remaining, never ends the run: the text and one corrective
\* instruction are appended and the loop goes on to another gateway call.
C25_ProseIsRetried ==
    [][(BoardProseReply /\ tool_iteration < max_tool_iterations) => CorrectiveRetry]_vars

\* C25 (amended): the same, for a run in which no query was created or
\* deleted; with the budget spent the reply ends the run with an error event,
\* and the board loop never makes more gateway calls than its budget.
C25_ProseIsRetriedUnlessQueryCreated ==
    [][/\ (BoardProseReply /\ ~query_created /\ tool_iteration < max_tool_iterations)
            => CorrectiveRetry
       /\ (BoardProseReply /\ ~query_created /\ tool_iteration >= max_tool_iterations)
            => /\ pc' = "done"
               /\ events'[Len(events')] = ErrorEv(<<"AI returned text instead of HTML code.">>)
               /\ messages' = messages
       /\ ctx = "board" => calls' <= max_tool_iterations]_vars

\* C25 witness: the corrective instruction is in the transcript and the
\* gateway is being called again
C25_Witness ==
    /\ ctx = "board" /\ pc = "llm"
    /\ Len(messages) >= 3
    /\ IsUserTurn(messages[Len(messages)], <<"Output ONLY the complete HTML code">>)
    /\ messages[Len(messages) - 1].role = "assistant"
    /\ messages[Len(messages) - 1].content # <<>>

\* C26: cache staleness never affects a run in flight: a model id that
\* resolved to a provider and a supports-tools flag at one call_llm resolves
\* to the same provider and flag at the next call_llm for that id, whatever
\* expiry or refresh of the model cache happened in between.
C26_ResolutionIsStable ==
    [][(/\ last_call.made /\ last_call.info # NoInfo
        /\ last_call'.made /\ last_call'.model = last_call.model
        /\ ops' = ops + 1)
           => /\ last_call'.info.provider = last_call.info.provider
              /\ last_call'.info.supports_tools = last_call.info.supports_tools]_vars

\* C27: a reply truncated at MAX_TOKENS, received with budget remaining,
\* appends exactly two messages, the partial text as an assistant turn and a
\* "Continue" user turn, extends accumulated_text by the partial text, emits
\* no terminal event and leads to another gateway call.
C27_TruncatedReplyContinues ==
    [][/\ (/\ pc = "llm" /\ IsFragment(last_reply')
           /\ tool_iteration < max_tool_iterations)
            => /\ messages' = messages \o <<AssistantMsg(last_reply'.text),
                                             UserMsg(<<"Continue">>)>>
               /\ accumulated_text' = accumulated_text \o last_reply'.text
               /\ continuation_count' = continuation_count + 1
               /\ \A i \in (Len(events) + 1)..Len(events') : ~IsTerminal(events'[i])
               /\ pc' = "call"
       /\ (/\ pc = "call" /\ messages # <<>>
           /\ IsUserTurn(messages[Len(messages)], <<"Continue">>))
            => /\ pc' = "llm"
               /\ calls' = calls + 1
               /\ messages' = messages]_vars

\* C27 witness: the gateway is being called again after a truncated reply
\* with text, the partial text and "Continue" closing the transcript
C27_Witness ==
    /\ pc = "llm" /\ Len(messages) >= 3
    /\ IsUserTurn(messages[Len(messages)], <<"Continue">>)
    /\ messages[Len(messages) - 1].role = "assistant"
    /\ messages[Len(messages) - 1].tool_calls = <<>>
    /\ messages[Len(messages) - 1].content = last_reply.text
    /\ IsFragment(last_reply) /\ last_reply.text # <<>>
    /\ accumulated_text = last_reply.text

\* the vendor turns of the adapter call, without the system turn the
\* OpenAI-compatible adapter puts first
VendorTurns ==
    IF wire.provider = "openai" /\ wire.system_instruction # <<>>
    THEN Tail(wire.contents) ELSE wire.contents

\* C28: every adapter keeps the turn order, and the tool results that answer
\* the calls of one assistant turn are grouped as the vendor expects: for
\* Gemini and Anthropic merged, in call order, into one user turn directly
\* after the assistant turn; for OpenAI-compatible vendors consecutive tool
\* messages in call order.
C28_ToolResultsAreGrouped ==
    wire.made =>
        \E turns \in {VendorTurns} :
        \E calls_ \in {wire.messages[2].tool_calls} :
            /\ turns[1].role = "user"
            /\ turns[2].role = (IF wire.provider = "gemini" THEN "model" ELSE "assistant")
            /\ CASE wire.provider = "gemini" ->
                      /\ Len(turns) = 3
                      /\ turns[1].parts = <<Part("text", "", {}, wire.messages[1].content, <<>>)>>
                      /\ Len(turns[2].parts) = Len(calls_)
                      /\ \A j \in 1..Len(calls_) :
                             /\ turns[2].parts[j].kind = "functionCall"
                             /\ turns[2].parts[j].name = calls_[j].name
                      /\ turns[3].role = "user"
                      /\ Len(turns[3].parts) = Len(calls_)
                      /\ \A j \in 1..Len(calls_) :
                             /\ turns[3].parts[j].kind = "functionResponse"
                             /\ turns[3].parts[j].name = wire.messages[2 + j].name
                             /\ turns[3].parts[j].response
                                    = <<wire.messages[2 + j].content[1].json>>
                 [] wire.provider = "anthropic" ->
                      /\ Len(turns) = 3
                      /\ ~turns[1].blocks /\ turns[1].content = wire.messages[1].content
                      /\ turns[2].blocks /\ Len(turns[2].content) = Len(calls_)
                      /\ \A j \in 1..Len(calls_) :
                             /\ turns[2].content[j].type = "tool_use"
                             /\ turns[2].content[j].id = calls_[j].id
                             /\ turns[2].content[j].name = calls_[j].name
                      /\ turns[3].role = "user" /\ turns[3].blocks
                      /\ Len(turns[3].content) = Len(calls_)
                      /\ \A j \in 1..Len(calls_) :
                             /\ turns[3].content[j].type = "tool_result"
                             /\ turns[3].content[j].id = wire.messages[2 + j].tool_call_id
                             /\ turns[3].content[j].text = wire.messages[2 + j].content
                 [] OTHER ->
                      /\ Len(turns) = 2 + Len(calls_)
                      /\ turns[1].content = wire.messages[1].content
                      /\ Len(turns[2].tool_calls) = Len(calls_)
                      /\ \A j \in 1..Len(calls_) :
                             /\ turns[2].tool_calls[j].id = calls_[j].id
                             /\ turns[2].tool_calls[j].name = calls_[j].name
                      /\ \A j \in 1..Len(calls_) :
                             /\ turns[2 + j].role = "tool"
                             /\ turns[2 + j].tool_call_id = wire.messages[2 + j].tool_call_id
                             /\ turns[2 + j].content = wire.messages[2 + j].content

\* C28 witness: the Anthropic adapter sent a transcript whose two calls have
\* different ids and different results
C28_Witness ==
    /\ wire.made /\ wire.provider = "anthropic"
    /\ wire.messages[3].tool_call_id # wire.messages[4].tool_call_id
    /\ wire.messages[3].content # wire.messages[4].content
    /\ Len(wire.contents) = 3

\* the declarations a request body carries, read back from the vendor's
\* tool-schema shape as name, description and parameter schema
SentDeclarations ==
    IF ~last_call.body.has_tools THEN <<>>
    ELSE CASE last_call.info.provider = "gemini" -> Declarations(last_call.body.tools)
           [] last_call.info.provider = "anthropic" ->
                [i \in 1..Len(last_call.body.tools) |->
                    [name |-> last_call.body.tools[i].name,
                     description |-> last_call.body.tools[i].description,
                     parameters |-> last_call.body.tools[i].input_schema]]
           [] OTHER ->
                [i \in 1..Len(last_call.body.tools) |-> last_call.body.tools[i].function]

\* C29: the tools a request carries to a vendor are the caller's declarations:
\* one entry per declaration, in the same order, each with the declaration's
\* name, description and parameter schema, for a model that supports tools.
C29_ToolsPassThrough ==
    (Reached /\ last_call.info.supports_tools)
        => SentDeclarations = Declarations(last_call.tools.groups)

\* C29 witness: a request to an OpenAI-compatible vendor carried two
\* declarations that came from two groups, with different descriptions and
\* different parameter schemas
C29_Witness ==
    /\ Reached /\ last_call.info.provider = "openai"
    /\ Len(last_call.tools.groups) = 2
    /\ last_call.body.has_tools
    /\ Len(last_call.body.tools) = 2
    /\ last_call.body.tools[1].function.name = "get_datastore_schema"
    /\ last_call.body.tools[1].function.description
           # last_call.body.tools[2].function.description
    /\ last_call.body.tools[1].function.parameters
           # last_call.body.tools[2].function.parameters

\* the tool_result events a step adds to the stream
NewToolResults ==
    SelectSeq(SubSeq(events', Len(events) + 1, Len(events')),
              LAMBDA e : e.type = "tool_result")

\* C30: the status of a tool_result event follows the error key of the
\* tool's result: the step that dispatches a call emits one tool_result for
\* that tool, with status "error" when the result has an error key and
\* "success" when it has none.
C30_StatusFollowsErrorKey ==
    [][pc = "tool" =>
          \E r \in {PendingResult}, added \in {NewToolResults} :
              /\ Len(added) = 1
              /\ added[1].tool = Head(pending).name
              /\ added[1].status = (IF r.has_error THEN "error" ELSE "success")]_vars

\* C30 witness: one run reported a result with an error key as "error" and a
\* result without one, and without a success key either, as "success"
C30_Witness ==
    /\ \E i \in 1..Len(events) :
           events[i].type = "tool_result" /\ events[i].status = "error"
    /\ \E i \in 1..Len(messages) : IsErrorToolMsg(messages[i])
    /\ \E i \in 1..Len(messages) :
           /\ messages[i].role = "tool" /\ messages[i].content # <<>>
           /\ ~messages[i].content[1].has_error /\ ~messages[i].content[1].success
           /\ \E j \in 1..Len(events) :
                  /\ events[j].type = "tool_result" /\ events[j].status = "success"
                  /\ events[j].tool = messages[i].name

\* the cache holds a list and its lifetime has not elapsed
CacheFresh == model_cache.models # <<>> /\ (now - model_cache.fetched_at) < CACHE_TTL
CacheStale == model_cache.models # <<>> /\ (now - model_cache.fetched_at) >= CACHE_TTL

\* C31 (as stated): within the lifetime of a populated cache an access
\* returns the cached list and issues no discovery request; once the
\* lifetime has elapsed the next access re-runs discovery and replaces the
\* cached list and its timestamp together.
C31_StaleCacheIsReplaced ==
    [][(ops' = ops + 1)
        => /\ CacheFresh
              => /\ SelectSeq(last_call'.requests, IsListing) = <<>>
                 /\ last_call'.models = model_cache.models
                 /\ model_cache' = model_cache
           /\ CacheStale
              => /\ Len(SelectSeq(last_call'.requests, IsListing)) = Cardinality(keys)
                 /\ model_cache' = [models |-> last_call'.models, fetched_at |-> now]]_vars

\* C31 (amended): within the lifetime of a populated cache an access returns
\* the cached list and issues no discovery request; once the lifetime has
\* elapsed the next access re-runs discovery, and when the discovery finds
\* at least one model it replaces the cached list and its timestamp
\* together, and when it finds none it leaves both as they were.
C31_StaleCacheIsReplacedWhenModelsFound ==
    [][(ops' = ops + 1)
        => /\ CacheFresh
              => /\ SelectSeq(last_call'.requests, IsListing) = <<>>
                 /\ last_call'.models = model_cache.models
                 /\ model_cache' = model_cache
           /\ CacheStale
              => /\ Len(SelectSeq(last_call'.requests, IsListing)) = Cardinality(keys)
                 /\ model_cache' = (IF last_call'.models # <<>>
                                    THEN [models |-> last_call'.models, fetched_at |-> now]
                                    ELSE model_cache)]_vars

\* C31 witness: a cache populated at time 0 outlived its lifetime, the next
\* access re-ran discovery, found nothing, and the cache is as it was
C31_Witness ==
    /\ ops = 2 /\ now >= CACHE_TTL
    /\ model_cache.models # <<>> /\ model_cache.fetched_at = 0
    /\ SelectSeq(last_call.requests, IsListing) # <<>>
    /\ last_call.models = <<>>

\* C38: once a discovery has populated the cache, a later refresh in which
\* every provider's listing fails neither overwrites the cached list nor
\* hides it: get_available_models still returns the cached models.
C38_FailedRefreshKeepsCachedModels ==
    [][(/\ ops' = ops + 1
        /\ CacheStale
        /\ \A i \in 1..Len(last_call'.requests) :
               IsListing(last_call'.requests[i]) => ~last_call'.requests[i].ok)
        => /\ model_cache' = model_cache
           /\ last_call'.models = model_cache.models]_vars

\* the most gateway calls a run may make: the budget once, or once per
\* generation attempt in the query context
CallBound ==
    IF ctx = "query" THEN max_attempts * max_tool_iterations ELSE max_tool_iterations

\* C32: every streaming run terminates: each gateway call consumes one unit
\* of the iteration budget, a run makes at most N calls (at most N in each
\* of at most 5 attempts in the query context), and then ends.
C32_RunTerminates ==
    /\ [][calls' # calls
            => /\ calls' = calls + 1
               /\ tool_iteration' = tool_iteration + 1
               /\ tool_iteration' <= max_tool_iterations]_vars
    /\ [](calls <= CallBound /\ attempt <= max_attempts)
    /\ <>[](pc = "done")

\* C32 witness: a query-context run used its whole budget in each of its five
\* attempts and has ended
C32_Witness ==
    /\ pc = "done" /\ ctx = "query"
    /\ max_tool_iterations = MaxIter
    /\ attempt = max_attempts
    /\ calls = max_attempts * MaxIter

\* C33: every tool name declared to the model in the context's tool set is
\* handled by the dispatcher: the result of a call of a declared tool is
\* never {"error": "Unknown function: <name>"}.
C33_DeclaredToolsAreDispatched ==
    \A i \in 1..Len(messages) :
        (messages[i].role = "tool" /\ messages[i].name \in get_tools_for_context(ctx))
            => messages[i].content # <<UnknownFunction(messages[i].name)>>

\* C34: in the board loop a final event with non-empty code, and the
\* code_delta before it, carry only text that passed the HTML shape test:
\* text rejected as prose in an earlier iteration is never delivered as the
\* final code, whatever follows the rejection.
C34_FinalCodePassedShapeTest ==
    ctx = "board" =>
        \A i \in 1..Len(events) :
            (events[i].type \in {"final", "code_delta"} /\ events[i].code # <<>>)
                => LooksLikeHtml(events[i].code)

\* C35: the accumulated truncated prefix is consumed by one text turn: a
\* complete text reply is handled with a non-empty prefix only when it
\* directly completes the chain of MAX_TOKENS continuations, never when it
\* follows a corrective reprompt, a nudge or a tool turn.
C35_PrefixConsumedOnce ==
    [][(/\ pc = "llm"
        /\ accumulated_text # <<>>
        /\ Len(replies') = Len(replies) + 1
        /\ IsTextReply(replies'[Len(replies')])
        /\ ~IsFragment(replies'[Len(replies')]))
        => /\ replies # <<>>
           /\ IsFragment(replies[Len(replies)])]_vars

\* a run_query or create_or_update_query result of the turn reports a row
\* count of 0, its own or that of its test
ReportsZeroRows(results) ==
    \E i \in 1..Len(results) :
        /\ results[i].tool \in {"run_query", "create_or_update_query"}
        /\ results[i].result.row_count = 0 \/ results[i].result.test = "zero"

\* C36: the zero-rows nudge is injected only when a zero-rows condition
\* occurred: a tool turn of the board loop in which no run_query or
\* create_or_update_query result reports a row count of 0 emits no "Query
\* returned 0 rows" progress event and appends no zero-rows user message.
C36_ZeroRowsNudgeOnlyOnZeroRows ==
    [][(pc = "tool" /\ ctx = "board" /\ ~ReportsZeroRows(last_tool_results'))
        => /\ \A i \in (Len(events) + 1)..Len(events') :
                  events'[i] # Progress("Query returned 0 rows - investigating...")
           /\ \A i \in (Len(messages) + 1)..Len(messages') :
                  messages'[i].role # "user"]_vars

\* the position of the assistant tool-call message a tool message answers:
\* the last one before it
CallTurnBefore(i) ==
    CHOOSE k \in 1..(i - 1) :
        /\ messages[k].role = "assistant" /\ messages[k].tool_calls # <<>>
        /\ \A l \in (k + 1)..(i - 1) :
               ~(messages[l].role = "assistant" /\ messages[l].tool_calls # <<>>)

\* C37: every tool-result message of a transcript matches its originating
\* call unambiguously: its tool_call_id is the id of exactly one tool call
\* of the assistant tool-call message before it, also when the turn holds
\* two calls of the same tool.
C37_ToolResultMatchesOneCall ==
    \A i \in 1..Len(messages) :
        messages[i].role = "tool"
            => /\ \E k \in 1..(i - 1) :
                      messages[k].role = "assistant" /\ messages[k].tool_calls # <<>>
               /\ \E tcs \in {messages[CallTurnBefore(i)].tool_calls} :
                      Cardinality({j \in 1..Len(tcs) :
                                      tcs[j].id = messages[i].tool_call_id}) = 1

\* C39: a query-context run that edits an existing query and does not end
\* with a passed test leaves the stored python_code of that query as it was
\* before the run: the stored code changes only when the generated code
\* passed its test.
C39_StoredCodeChangesOnlyOnPass ==
    (ctx = "query" /\ query_id /\ stored_code # StoredCode)
        => last_test \in {"ok", "ok_sample"}

====
